---- MODULE Spec2Model ----
(***************************************************************************)
(* Admission gate, budget ledger and rate limiter of roast-my-code.        *)
(*                                                                         *)
(* The store is the SQLite database of app/db.py: the tables app_config,   *)
(* monthly_budget, daily_usage and roast_log.  Every get_db() block is a   *)
(* connection of its own; a write statement takes the database write lock  *)
(* and its effect stays in the connection until commit.                    *)
(*                                                                         *)
(* Money is kept in exact integer units (the REAL column spent_cents and   *)
(* the float costs are modelled without rounding); config values are the   *)
(* strings the table stores and are parsed on every read.                  *)
(***************************************************************************)
EXTENDS Integers, Sequences, FiniteSets, TLC

VARIABLES
    app_config,      \* table app_config: key -> value (strings)
    monthly_budget,  \* table monthly_budget: month -> [spent_cents, roast_count]
    daily_usage,     \* table daily_usage: <<date, identity>> -> count
    roast_log,       \* table roast_log: set of rows
    today,           \* the wall-clock day (date.today()), a day number
    writer,          \* request holding the database write lock, 0 when free
    txn,             \* the uncommitted tables of the connection holding the lock
    pc,              \* position of each request in submit_roast
    req,             \* each request's session id and ip hash, once read
    result,          \* each request's roast_code() result (cost_cents), or NoResult
    flash,           \* each request's flashed message, or NoFlash
    trace,           \* each request's calls so far, in order
    cfg_writes,      \* admin config writes so far
    obs              \* a direct caller of the library: its last call and what
                     \* came back, and its record_usage calls per session so far

vars == <<app_config, monthly_budget, daily_usage, roast_log, today, writer, txn,
          pc, req, result, flash, trace, cfg_writes, obs>>

store == <<app_config, monthly_budget, daily_usage, roast_log>>

-----------------------------------------------------------------------------
(* Bounds of the model *)

NumRequests == 2
MaxConfigWrites == 1
MaxCents == 4

Requests == 1..NumRequests
Sessions == {"s1", "s2"}
IpHashes == {"h1", "h2"}
\* who sends requests: a session id with the ip hash it comes from
Visitors == {<<"s1", "h1">>, <<"s2", "h1">>, <<"s2", "h2">>}
Hours == {0, 23}
Costs == {0, 1, 2}

-----------------------------------------------------------------------------
(* Config values: the strings of app_config.value and their parsing *)

Numerals == <<"0", "1", "2", "3", "4", "5", "6", "7", "8", "9", "10">>

\* the decimal strings the model uses, with their values: the small numerals and
\* the defaults the callers of get_config pass
ParseTable ==
    {<<Numerals[i], i - 1>> : i \in 1..Len(Numerals)}
        \cup {<<"30", 30>>, <<"80", 80>>, <<"100", 100>>, <<"500", 500>>,
              <<"2000", 2000>>, <<"15000", 15000>>}

ToStr(n) == Numerals[n + 1]

\* whether int(s) / float(s) returns; otherwise it raises ValueError
IsNumeral(s) == \E e \in ParseTable : e[1] = s

\* int(s) / float(s) of a decimal string
ParseNum(s) == (CHOOSE e \in ParseTable : e[1] = s)[2]

ConfigKeys == {"monthly_budget_cents", "cost_per_roast_cents", "max_input_chars",
               "max_input_lines", "daily_roasts_per_session", "daily_roasts_per_ip",
               "daily_roasts_global", "enable_roasting", "default_model",
               "budget_warning_threshold"}

\* the store after init_db(), with thresholds an admin has set small
SeededConfig ==
    [k \in ConfigKeys |->
        CASE k = "monthly_budget_cents" -> "2"
          [] k = "cost_per_roast_cents" -> "1"
          [] k = "max_input_chars" -> "2"
          [] k = "max_input_lines" -> "2"
          [] k = "daily_roasts_per_session" -> "1"
          [] k = "daily_roasts_per_ip" -> "1"
          [] k = "daily_roasts_global" -> "2"
          [] k = "enable_roasting" -> "true"
          [] k = "default_model" -> "claude-haiku-4-5-20251001"
          [] k = "budget_warning_threshold" -> "80"]

\* mutant: the values are those read when the process started
get_config_cached(key, default) ==
    IF key \in DOMAIN SeededConfig THEN SeededConfig[key] ELSE default

\* mutant: the caller's default is dropped and a missing key reads as None
get_config_no_default(key, default) ==
    IF key \in DOMAIN app_config THEN app_config[key] ELSE "None"

get_config(key, default) ==
    IF key \in DOMAIN app_config THEN app_config[key] ELSE default

-----------------------------------------------------------------------------
(* What a library call gives back: a return value, or an exception *)

Returned(v) == [raised |-> "", value |-> v]
Raised(e) == [raised |-> e, value |-> <<>>]

Msg(text) == [text |-> text, args |-> <<>>]

Decision(allowed, reason) == [allowed |-> allowed, reason |-> reason]

-----------------------------------------------------------------------------
(* Budget ledger: app/budget.py *)

\* the model's calendar: day numbers, MonthLen days to a month
MonthLen == 2

get_current_month == today \div MonthLen

get_month_spend(month) ==
    IF month \in DOMAIN monthly_budget THEN monthly_budget[month].spent_cents ELSE 0

get_month_roast_count(month) ==
    IF month \in DOMAIN monthly_budget THEN monthly_budget[month].roast_count ELSE 0

\* mutant: INSERT OR REPLACE, the row is overwritten
upsert_cost_replace(t, month, cost_cents) ==
    IF month \in DOMAIN t
    THEN [t EXCEPT ![month] = [spent_cents |-> cost_cents, roast_count |-> 1]]
    ELSE t @@ (month :> [spent_cents |-> cost_cents, roast_count |-> 1])

\* mutant: the ledger keeps the row of the current month only
upsert_cost_current_only(t, month, cost_cents) ==
    IF month \in DOMAIN t
    THEN [t EXCEPT ![month] = [spent_cents |-> @.spent_cents + cost_cents,
                               roast_count |-> @.roast_count + 1]]
    ELSE (month :> [spent_cents |-> cost_cents, roast_count |-> 1])

\* mutant: the update adds the cost and leaves roast_count as it was
upsert_cost_no_count(t, month, cost_cents) ==
    IF month \in DOMAIN t
    THEN [t EXCEPT ![month] = [spent_cents |-> @.spent_cents + cost_cents,
                               roast_count |-> @.roast_count]]
    ELSE t @@ (month :> [spent_cents |-> cost_cents, roast_count |-> 1])

\* INSERT ... ON CONFLICT (month) DO UPDATE on the table value t
upsert_cost(t, month, cost_cents) ==
    IF month \in DOMAIN t
    THEN [t EXCEPT ![month] = [spent_cents |-> @.spent_cents + cost_cents,
                               roast_count |-> @.roast_count + 1]]
    ELSE t @@ (month :> [spent_cents |-> cost_cents, roast_count |-> 1])

CoolingDown == Msg("The roast machine is cooling down. Check back next month.")

\* the first test of check_budget
over_limit(current_spend, budget_limit) == current_spend >= budget_limit

\* mutant: the estimate may not even reach the limit
would_exceed_ge(current_spend, estimated_next, budget_limit) ==
    current_spend + estimated_next >= budget_limit

\* mutant: the estimate of the next roast is not looked at
would_exceed_never(current_spend, estimated_next, budget_limit) == FALSE

\* the second test of check_budget
would_exceed(current_spend, estimated_next, budget_limit) ==
    current_spend + estimated_next > budget_limit

\* the guard of the percentage computation
warning_guard(budget_limit) == budget_limit > 0

\* (current_spend / budget_limit * 100) >= threshold, for budget_limit > 0
over_threshold(current_spend, budget_limit, threshold) ==
    current_spend * 100 >= threshold * budget_limit

\* mutant: the percentage used is computed before the limit is looked at
check_budget_pct_first ==
    LET limit_s == get_config("monthly_budget_cents", "2000")
        est_s == get_config("cost_per_roast_cents", "1")
        thr_s == get_config("budget_warning_threshold", "80")
        budget_limit == ParseNum(limit_s)
        current_spend == get_month_spend(get_current_month)
    IN  IF ~IsNumeral(limit_s) THEN Raised("ValueError")
        ELSE IF budget_limit = 0 THEN Raised("ZeroDivisionError")
        ELSE IF over_limit(current_spend, budget_limit)
        THEN Returned(<<Decision(FALSE, CoolingDown), FALSE>>)
        ELSE IF ~IsNumeral(est_s) THEN Raised("ValueError")
        ELSE IF would_exceed(current_spend, ParseNum(est_s), budget_limit)
        THEN Returned(<<Decision(FALSE, CoolingDown), FALSE>>)
        ELSE IF ~IsNumeral(thr_s) THEN Raised("ValueError")
        ELSE Returned(<<Decision(TRUE, Msg("ok")),
                        over_threshold(current_spend, budget_limit, ParseNum(thr_s))>>)

\* check_budget(): value <<decision, warning logged>>, or the exception it raises
check_budget ==
    LET limit_s == get_config("monthly_budget_cents", "2000")
        est_s == get_config("cost_per_roast_cents", "1")
        thr_s == get_config("budget_warning_threshold", "80")
        budget_limit == ParseNum(limit_s)
        current_spend == get_month_spend(get_current_month)
        estimated_next == ParseNum(est_s)
        threshold == ParseNum(thr_s)
    IN  IF ~IsNumeral(limit_s) THEN Raised("ValueError")
        ELSE IF over_limit(current_spend, budget_limit)
        THEN Returned(<<Decision(FALSE, CoolingDown), FALSE>>)
        ELSE IF ~IsNumeral(est_s) THEN Raised("ValueError")
        ELSE IF would_exceed(current_spend, estimated_next, budget_limit)
        THEN Returned(<<Decision(FALSE, CoolingDown), FALSE>>)
        ELSE IF ~IsNumeral(thr_s) THEN Raised("ValueError")
        ELSE IF warning_guard(budget_limit)
        THEN IF budget_limit = 0 THEN Raised("ZeroDivisionError")
             ELSE Returned(<<Decision(TRUE, Msg("ok")),
                             over_threshold(current_spend, budget_limit, threshold)>>)
        ELSE Returned(<<Decision(TRUE, Msg("ok")), FALSE>>)

-----------------------------------------------------------------------------
(* Rate limiter: app/rate_limit.py *)

SessionIdentity(session_id) == <<"session", session_id>>
IpIdentity(ip_hash) == <<"ip", ip_hash>>

RECURSIVE SumCount(_, _)
SumCount(t, keys) ==
    IF keys = {} THEN 0
    ELSE LET k == CHOOSE k \in keys : TRUE
         IN  t[k] + SumCount(t, keys \ {k})

\* mutant: the rows of every date are summed
usage_of_every_date(t, date, identity) ==
    SumCount(t, {k \in DOMAIN t : k[2] = identity})

\* SELECT COALESCE(SUM(count), 0) FROM daily_usage WHERE date = ? AND identity = ?
usage_of(t, date, identity) ==
    SumCount(t, {k \in DOMAIN t : k[1] = date /\ k[2] = identity})

\* mutant: only the session-tagged rows are summed
usage_on_sessions(t, date) ==
    SumCount(t, {k \in DOMAIN t : k[1] = date /\ k[2][1] = "session"})

\* SELECT COALESCE(SUM(count), 0) FROM daily_usage WHERE date = ?
usage_on(t, date) == SumCount(t, {k \in DOMAIN t : k[1] = date})

\* mutant: INSERT OR REPLACE, the count starts again at 1
upsert_usage_replace(t, date, identity) ==
    IF <<date, identity>> \in DOMAIN t
    THEN [t EXCEPT ![<<date, identity>>] = 1]
    ELSE t @@ (<<date, identity>> :> 1)

\* INSERT ... ON CONFLICT (date, identity) DO UPDATE SET count = count + 1
upsert_usage(t, date, identity) ==
    IF <<date, identity>> \in DOMAIN t
    THEN [t EXCEPT ![<<date, identity>>] = @ + 1]
    ELSE t @@ (<<date, identity>> :> 1)

SessionLimitMsg(session_limit, remaining_hours) ==
    [text |-> "Easy there, glutton for punishment. You've used all {} roasts for today. Resets in ~{}h.",
     args |-> <<session_limit, remaining_hours>>]

NetworkLimitMsg == Msg("This network has hit its daily limit. Try again tomorrow.")

CapacityMsg == Msg("The roast machine is at capacity for today. Check back tomorrow.")

\* mutant: the ip ceiling is looked at before the session limit
check_rate_limit_ip_first(session_id, ip_hash, hour) ==
    LET session_s == get_config("daily_roasts_per_session", "10")
        ip_s == get_config("daily_roasts_per_ip", "30")
        global_s == get_config("daily_roasts_global", "500")
        session_count == usage_of(daily_usage, today, SessionIdentity(session_id))
        ip_count == usage_of(daily_usage, today, IpIdentity(ip_hash))
        global_count == usage_on(daily_usage, today)
    IN  IF ~IsNumeral(ip_s) THEN Raised("ValueError")
        ELSE IF ip_count >= ParseNum(ip_s)
        THEN Returned(<<Decision(FALSE, NetworkLimitMsg), <<"ip">> >>)
        ELSE IF ~IsNumeral(session_s) THEN Raised("ValueError")
        ELSE IF session_count >= ParseNum(session_s)
        THEN Returned(<<Decision(FALSE, SessionLimitMsg(ParseNum(session_s), 24 - hour)),
                        <<"ip", "session">> >>)
        ELSE IF ~IsNumeral(global_s) THEN Raised("ValueError")
        ELSE IF global_count >= ParseNum(global_s)
        THEN Returned(<<Decision(FALSE, CapacityMsg), <<"ip", "session", "global">> >>)
        ELSE Returned(<<Decision(TRUE, Msg("ok")), <<"ip", "session", "global">> >>)

\* mutant: the ip ceiling may be reached before the tier denies
check_rate_limit_ip_gt(session_id, ip_hash, hour) ==
    LET session_s == get_config("daily_roasts_per_session", "10")
        ip_s == get_config("daily_roasts_per_ip", "30")
        global_s == get_config("daily_roasts_global", "500")
        session_count == usage_of(daily_usage, today, SessionIdentity(session_id))
        ip_count == usage_of(daily_usage, today, IpIdentity(ip_hash))
        global_count == usage_on(daily_usage, today)
    IN  IF ~IsNumeral(session_s) THEN Raised("ValueError")
        ELSE IF session_count >= ParseNum(session_s)
        THEN Returned(<<Decision(FALSE, SessionLimitMsg(ParseNum(session_s), 24 - hour)),
                        <<"session">> >>)
        ELSE IF ~IsNumeral(ip_s) THEN Raised("ValueError")
        ELSE IF ip_count > ParseNum(ip_s)
        THEN Returned(<<Decision(FALSE, NetworkLimitMsg), <<"session", "ip">> >>)
        ELSE IF ~IsNumeral(global_s) THEN Raised("ValueError")
        ELSE IF global_count >= ParseNum(global_s)
        THEN Returned(<<Decision(FALSE, CapacityMsg), <<"session", "ip", "global">> >>)
        ELSE Returned(<<Decision(TRUE, Msg("ok")), <<"session", "ip", "global">> >>)

\* mutant: the session limit may be reached before the tier denies
check_rate_limit_session_gt(session_id, ip_hash, hour) ==
    LET session_s == get_config("daily_roasts_per_session", "10")
        ip_s == get_config("daily_roasts_per_ip", "30")
        global_s == get_config("daily_roasts_global", "500")
        session_count == usage_of(daily_usage, today, SessionIdentity(session_id))
        ip_count == usage_of(daily_usage, today, IpIdentity(ip_hash))
        global_count == usage_on(daily_usage, today)
    IN  IF ~IsNumeral(session_s) THEN Raised("ValueError")
        ELSE IF session_count > ParseNum(session_s)
        THEN Returned(<<Decision(FALSE, SessionLimitMsg(ParseNum(session_s), 24 - hour)),
                        <<"session">> >>)
        ELSE IF ~IsNumeral(ip_s) THEN Raised("ValueError")
        ELSE IF ip_count >= ParseNum(ip_s)
        THEN Returned(<<Decision(FALSE, NetworkLimitMsg), <<"session", "ip">> >>)
        ELSE IF ~IsNumeral(global_s) THEN Raised("ValueError")
        ELSE IF global_count >= ParseNum(global_s)
        THEN Returned(<<Decision(FALSE, CapacityMsg), <<"session", "ip", "global">> >>)
        ELSE Returned(<<Decision(TRUE, Msg("ok")), <<"session", "ip", "global">> >>)

\* check_rate_limit() of a request with this session and ip hash, at this hour:
\* value <<decision, tiers evaluated>>, or the exception it raises
check_rate_limit(session_id, ip_hash, hour) ==
    LET session_s == get_config("daily_roasts_per_session", "10")
        ip_s == get_config("daily_roasts_per_ip", "30")
        global_s == get_config("daily_roasts_global", "500")
        session_count == usage_of(daily_usage, today, SessionIdentity(session_id))
        ip_count == usage_of(daily_usage, today, IpIdentity(ip_hash))
        global_count == usage_on(daily_usage, today)
    IN  IF ~IsNumeral(session_s) THEN Raised("ValueError")
        ELSE IF session_count >= ParseNum(session_s)
        THEN Returned(<<Decision(FALSE, SessionLimitMsg(ParseNum(session_s), 24 - hour)),
                        <<"session">> >>)
        ELSE IF ~IsNumeral(ip_s) THEN Raised("ValueError")
        ELSE IF ip_count >= ParseNum(ip_s)
        THEN Returned(<<Decision(FALSE, NetworkLimitMsg), <<"session", "ip">> >>)
        ELSE IF ~IsNumeral(global_s) THEN Raised("ValueError")
        ELSE IF global_count >= ParseNum(global_s)
        THEN Returned(<<Decision(FALSE, CapacityMsg), <<"session", "ip", "global">> >>)
        ELSE Returned(<<Decision(TRUE, Msg("ok")), <<"session", "ip", "global">> >>)

\* mutant: the second statement has no identity in its WHERE clause
record_usage_second_all(t, date, ip_hash) ==
    LET u == upsert_usage(t, date, IpIdentity(ip_hash))
    IN  [k \in DOMAIN u |-> IF k[1] = date /\ k[2][1] = "ip" /\ k \in DOMAIN t
                            THEN t[k] + 1 ELSE u[k]]

\* the two statements of record_usage(), on the table value t
record_usage_first(t, date, session_id) == upsert_usage(t, date, SessionIdentity(session_id))
record_usage_second(t, date, ip_hash) == upsert_usage(t, date, IpIdentity(ip_hash))

Max(a, b) == IF a >= b THEN a ELSE b

\* mutant: the difference is returned as it is
get_remaining_roasts_unclamped(session_id) ==
    LET used == usage_of(daily_usage, today, SessionIdentity(session_id))
        limit_s == get_config("daily_roasts_per_session", "10")
    IN  IF ~IsNumeral(limit_s) THEN Raised("ValueError")
        ELSE Returned(ParseNum(limit_s) - used)

\* get_remaining_roasts()
get_remaining_roasts(session_id) ==
    LET used == usage_of(daily_usage, today, SessionIdentity(session_id))
        limit_s == get_config("daily_roasts_per_session", "10")
    IN  IF ~IsNumeral(limit_s) THEN Raised("ValueError")
        ELSE Returned(Max(0, ParseNum(limit_s) - used))

-----------------------------------------------------------------------------
(* Input validation: app/security.py *)

\* a submitted code text, as far as validate_input looks at it
Codes == {[blank |-> TRUE, chars |-> 0, lines |-> 1],
          [blank |-> FALSE, chars |-> 1, lines |-> 1],
          [blank |-> FALSE, chars |-> 3, lines |-> 1],
          [blank |-> FALSE, chars |-> 2, lines |-> 3]}

validate_input(code) ==
    LET chars_s == get_config("max_input_chars", "15000")
        lines_s == get_config("max_input_lines", "500")
    IN  IF code.blank
        THEN Returned(<<FALSE, Msg("Paste some code first. We can't roast nothing.")>>)
        ELSE IF ~IsNumeral(chars_s) \/ ~IsNumeral(lines_s) THEN Raised("ValueError")
        ELSE IF code.chars > ParseNum(chars_s)
        THEN Returned(<<FALSE, [text |-> "Too long ({} chars). Max is {}.",
                                args |-> <<code.chars, ParseNum(chars_s)>>]>>)
        ELSE IF code.lines > ParseNum(lines_s)
        THEN Returned(<<FALSE, [text |-> "Too many lines ({}). Max is {}. Paste the worst part.",
                                args |-> <<code.lines, ParseNum(lines_s)>>]>>)
        ELSE Returned(<<TRUE, Msg("")>>)

-----------------------------------------------------------------------------
(* The admin form and the empty store *)

\* what the admin form may post for a key
ConfigValues(key) ==
    CASE key = "enable_roasting" -> {"true", "false"}
      [] key = "monthly_budget_cents" -> {"0", ToStr(MaxCents), "abc"}
      [] key = "daily_roasts_per_session" -> {"0"}
      [] key = "max_input_chars" -> {"0"}
      [] OTHER -> {}

EmptyTable == <<>>

NoTxn == [roast_log |-> {}, monthly_budget |-> EmptyTable, daily_usage |-> EmptyTable]

NoReq == [session_id |-> "", ip_hash |-> ""]

NoResult == [ok |-> FALSE, cost_cents |-> 0]

NoFlash == Msg("")

NoObs == [call |-> "", args |-> <<>>, ret |-> Returned(<<>>),
          n |-> [s \in Sessions |-> 0]]

Init ==
    /\ app_config = SeededConfig
    /\ monthly_budget = EmptyTable
    /\ daily_usage = EmptyTable
    /\ roast_log = {}
    /\ today = 0
    /\ writer = 0
    /\ txn = NoTxn
    /\ pc = [r \in Requests |-> "idle"]
    /\ req = [r \in Requests |-> NoReq]
    /\ result = [r \in Requests |-> NoResult]
    /\ flash = [r \in Requests |-> NoFlash]
    /\ trace = [r \in Requests |-> <<>>]
    /\ cfg_writes = 0
    /\ obs = NoObs

-----------------------------------------------------------------------------
(* get_db(): app/db.py.  A write statement takes the write lock and works on the
   connection's own copy of the tables; commit installs the copy and frees the
   lock; an exception inside the block rolls the copy back. *)

\* the tables as the connection of the lock holder sees them
begin_write == [roast_log |-> roast_log, monthly_budget |-> monthly_budget,
                daily_usage |-> daily_usage]

\* conn.commit(): the tables after the lock holder's commit
commit(t) == t

Commit ==
    /\ roast_log' = commit(txn).roast_log
    /\ monthly_budget' = commit(txn).monthly_budget
    /\ daily_usage' = commit(txn).daily_usage
    /\ writer' = 0
    /\ txn' = NoTxn

\* mutant: what the connection wrote before the exception stays in the tables
RollbackPartial ==
    /\ writer' = 0
    /\ txn' = NoTxn
    /\ daily_usage' = txn.daily_usage
    /\ UNCHANGED <<roast_log, monthly_budget>>

\* conn.rollback(): the connection's copy is dropped
Rollback ==
    /\ writer' = 0
    /\ txn' = NoTxn
    /\ UNCHANGED <<roast_log, monthly_budget, daily_usage>>

-----------------------------------------------------------------------------
(* submit_roast: app/main.py.  One action per call the handler makes; trace[r]
   lists the calls that have ended, each with how it ended. *)

OfflineMsg == Msg("The roast machine is currently offline. Check back later.")

RetryMsg == Msg("Claude is having a moment. Your code was SO bad it broke the reviewer. (Just kidding -- try again in a minute.)")

Goto(r, label) == pc' = [pc EXCEPT ![r] = label]

Ended(r, name, how) == trace' = [trace EXCEPT ![r] = Append(@, <<name, how>>)]

Flash(r, msg) == flash' = [flash EXCEPT ![r] = msg]

\* the response is sent and the request context is gone
Respond(r, label) == Goto(r, label) /\ req' = [req EXCEPT ![r] = NoReq]

\* mutant: the return after flash() is missing
AfterCheckNoReturn(r, name, ok, msg, next) ==
    IF ok
    THEN Ended(r, name, "pass") /\ Goto(r, next) /\ UNCHANGED flash
    ELSE Ended(r, name, "fail") /\ Flash(r, msg) /\ Goto(r, next) /\ UNCHANGED req

\* what the handler does with a check's (ok, message): flash and redirect, or go on
AfterCheck(r, name, ok, msg, next) ==
    IF ok
    THEN Ended(r, name, "pass") /\ Goto(r, next) /\ UNCHANGED flash
    ELSE Ended(r, name, "fail") /\ Flash(r, msg) /\ Respond(r, "rejected")

\* an exception nobody catches: the request ends as a 500
Propagate(r, name) ==
    Ended(r, name, "raise") /\ Respond(r, "error") /\ UNCHANGED flash

\* the request arrives: lines 55-64 read the form
Submit(r) ==
    /\ pc[r] = "idle"
    /\ Goto(r, "kill_switch")
    /\ UNCHANGED <<store, today, writer, txn, req, result, flash, trace, cfg_writes, obs>>

\* mutant: the kill switch is read and not acted on
KillSwitchIgnored(r) ==
    /\ pc[r] = "kill_switch"
    /\ Ended(r, "kill_switch",
             IF get_config("enable_roasting", "true") = "true" THEN "pass" ELSE "fail")
    /\ Goto(r, "validate_input")
    /\ UNCHANGED <<store, today, writer, txn, req, result, flash, cfg_writes, obs>>

KillSwitch(r) ==
    /\ pc[r] = "kill_switch"
    /\ LET ok == get_config("enable_roasting", "true") = "true"
       IN  /\ AfterCheck(r, "kill_switch", ok, OfflineMsg, "validate_input")
           /\ ok => UNCHANGED req
    /\ UNCHANGED <<store, today, writer, txn, result, cfg_writes, obs>>

\* validate_input(code), for the code the form carries
ValidateInput(r) ==
    /\ pc[r] = "validate_input"
    /\ \E code \in Codes :
          LET v == validate_input(code)
          IN  IF v.raised # "" THEN Propagate(r, "validate_input")
              ELSE /\ AfterCheck(r, "validate_input", v.value[1], v.value[2], "check_budget")
                   /\ v.value[1] => UNCHANGED req
    /\ UNCHANGED <<store, today, writer, txn, result, cfg_writes, obs>>

CheckBudget(r) ==
    /\ pc[r] = "check_budget"
    /\ LET b == check_budget
       IN  IF b.raised # "" THEN Propagate(r, "check_budget")
           ELSE /\ AfterCheck(r, "check_budget", b.value[1].allowed, b.value[1].reason,
                              "check_rate_limit")
                /\ b.value[1].allowed => UNCHANGED req
    /\ UNCHANGED <<store, today, writer, txn, result, cfg_writes, obs>>

\* check_rate_limit(), for the session id ensure_session() gave the visitor and
\* the ip hash of the request
CheckRateLimit(r) ==
    /\ pc[r] = "check_rate_limit"
    /\ \E v \in Visitors, hour \in Hours :
          LET s == v[1]
              h == v[2]
              l == check_rate_limit(s, h, hour)
          IN  IF l.raised # "" THEN Propagate(r, "check_rate_limit")
              ELSE /\ AfterCheck(r, "check_rate_limit", l.value[1].allowed,
                                 l.value[1].reason, "roast_code")
                   /\ l.value[1].allowed =>
                         req' = [req EXCEPT ![r] = [session_id |-> s, ip_hash |-> h]]
    /\ UNCHANGED <<store, today, writer, txn, result, cfg_writes, obs>>

\* roast_code() returns a result with its actual cost
RoastCodeReturns(r) ==
    /\ pc[r] = "roast_code"
    /\ \E c \in Costs : result' = [result EXCEPT ![r] = [ok |-> TRUE, cost_cents |-> c]]
    /\ Ended(r, "roast_code", "return")
    /\ Goto(r, "persist")
    /\ UNCHANGED <<store, today, writer, txn, req, flash, cfg_writes, obs>>

\* mutant: usage is recorded although roast_code() raised
RoastCodeRaisesCharged(r) ==
    /\ pc[r] = "roast_code"
    /\ Ended(r, "roast_code", "raise")
    /\ Flash(r, RetryMsg)
    /\ Respond(r, "failed")
    /\ writer = 0
    /\ daily_usage' = record_usage_second(
                          record_usage_first(daily_usage, today, req[r].session_id),
                          today, req[r].ip_hash)
    /\ UNCHANGED <<app_config, monthly_budget, roast_log, today, writer, txn, result,
                   cfg_writes, obs>>

\* roast_code() raises; the handler flashes the retry message
RoastCodeRaises(r) ==
    /\ pc[r] = "roast_code"
    /\ Ended(r, "roast_code", "raise")
    /\ Flash(r, RetryMsg)
    /\ Respond(r, "failed")
    /\ UNCHANGED <<store, today, writer, txn, result, cfg_writes, obs>>

\* the row submit_roast inserts into roast_log
LogRow(t, r) ==
    [id |-> Cardinality(t) + 1, created_at |-> today,
     session_id |-> req[r].session_id, ip_hash |-> req[r].ip_hash,
     cost_cents |-> result[r].cost_cents]

\* mutant: record_cost is called for every result
records_cost_always(cost_cents) == TRUE

\* whether submit_roast calls record_cost for this result
records_cost(cost_cents) == cost_cents > 0

\* with get_db() as db: INSERT INTO roast_log ...; one statement, committed
Persist(r) ==
    /\ pc[r] = "persist"
    /\ writer = 0
    /\ roast_log' = roast_log \cup {LogRow(roast_log, r)}
    /\ Ended(r, "persist", "return")
    /\ Goto(r, IF records_cost(result[r].cost_cents) THEN "record_cost" ELSE "record_usage")
    /\ UNCHANGED <<app_config, monthly_budget, daily_usage, today, writer, txn, req,
                   result, flash, cfg_writes, obs>>

\* record_cost(result['cost_cents']): one statement, committed
RecordCost(r) ==
    /\ pc[r] = "record_cost"
    /\ writer = 0
    /\ monthly_budget' = upsert_cost(monthly_budget, get_current_month, result[r].cost_cents)
    /\ Ended(r, "record_cost", "return")
    /\ Goto(r, "record_usage")
    /\ UNCHANGED <<app_config, daily_usage, roast_log, today, writer, txn, req,
                   result, flash, cfg_writes, obs>>

\* record_usage(): the session-tagged upsert takes the write lock
UsageSession(r) ==
    /\ pc[r] = "record_usage"
    /\ writer = 0
    /\ writer' = r
    /\ txn' = [begin_write EXCEPT
                  !.daily_usage = record_usage_first(@, today, req[r].session_id)]
    /\ Goto(r, "usage_ip")
    /\ UNCHANGED <<store, today, req, result, flash, trace, cfg_writes, obs>>

\* mutant: the ip-tagged upsert waits for a write lock of its own, without timeout
UsageIpOwnLock(r) ==
    /\ pc[r] = "usage_ip"
    /\ writer = 0
    /\ txn' = [txn EXCEPT !.daily_usage = record_usage_second(@, today, req[r].ip_hash)]
    /\ Goto(r, "usage_commit")
    /\ UNCHANGED <<store, today, writer, req, result, flash, trace, cfg_writes, obs>>

\* record_usage(): the ip-tagged upsert, in the same transaction
UsageIp(r) ==
    /\ pc[r] = "usage_ip"
    /\ txn' = [txn EXCEPT !.daily_usage = record_usage_second(@, today, req[r].ip_hash)]
    /\ Goto(r, "usage_commit")
    /\ UNCHANGED <<store, today, writer, req, result, flash, trace, cfg_writes, obs>>

\* record_usage(): commit; the handler redirects to the result page
UsageCommit(r) ==
    /\ pc[r] = "usage_commit"
    /\ Commit
    /\ Ended(r, "record_usage", "return")
    /\ Respond(r, "done")
    /\ UNCHANGED <<app_config, today, result, flash, cfg_writes, obs>>

ReadSteps == {"kill_switch", "validate_input", "check_budget", "check_rate_limit"}
WriteEntrySteps == {"persist", "record_cost", "record_usage"}
InTxnSteps == {"usage_ip", "usage_commit"}
Terminal == {"rejected", "failed", "error", "done"}

\* the call of submit_roast a position belongs to
CallAt(label) == IF label \in InTxnSteps THEN "record_usage" ELSE label

\* mutant: the handler catches the timeout and carries on without the write
BusyTimeoutSkipped(r) ==
    /\ pc[r] \in WriteEntrySteps
    /\ writer # 0
    /\ Ended(r, CallAt(pc[r]), "raise")
    /\ IF pc[r] = "record_usage"
       THEN Respond(r, "done")
       ELSE /\ Goto(r, IF pc[r] = "persist" /\ records_cost(result[r].cost_cents)
                       THEN "record_cost" ELSE "record_usage")
            /\ UNCHANGED req
    /\ UNCHANGED <<store, today, writer, txn, result, flash, cfg_writes, obs>>

\* busy_timeout: the write lock stays taken for 5 s and the statement raises
BusyTimeout(r) ==
    /\ pc[r] \in WriteEntrySteps
    /\ writer # 0
    /\ Propagate(r, CallAt(pc[r]))
    /\ UNCHANGED <<store, today, writer, txn, result, cfg_writes, obs>>

\* mutant: a check that raises is caught and the handler goes on to the next step
StoreFaultPasses(r) ==
    /\ \/ /\ pc[r] \in ReadSteps
          /\ Ended(r, pc[r], "raise")
          /\ Goto(r, CASE pc[r] = "kill_switch" -> "validate_input"
                       [] pc[r] = "validate_input" -> "check_budget"
                       [] pc[r] = "check_budget" -> "check_rate_limit"
                       [] pc[r] = "check_rate_limit" -> "roast_code")
          /\ UNCHANGED <<store, writer, txn, req, flash>>
       \/ /\ pc[r] \in WriteEntrySteps
          /\ UNCHANGED <<store, writer, txn>>
          /\ Propagate(r, CallAt(pc[r]))
       \/ /\ pc[r] \in InTxnSteps
          /\ Rollback
          /\ UNCHANGED app_config
          /\ Propagate(r, CallAt(pc[r]))
    /\ UNCHANGED <<today, result, cfg_writes, obs>>

\* the store raises inside a get_db() block (sqlite3.Error): rollback, re-raise
StoreFault(r) ==
    /\ \/ /\ pc[r] \in ReadSteps \cup WriteEntrySteps
          /\ UNCHANGED <<store, writer, txn>>
       \/ /\ pc[r] \in InTxnSteps
          /\ Rollback
          /\ UNCHANGED app_config
    /\ Propagate(r, CallAt(pc[r]))
    /\ UNCHANGED <<today, result, cfg_writes, obs>>

\* mutant: INSERT OR REPLACE, a key without a row gets one
set_config_upsert(key, value) ==
    IF key \in DOMAIN app_config THEN [app_config EXCEPT ![key] = value]
    ELSE app_config @@ (key :> value)

\* update_config() posting one key: set_config(key, value)
set_config(key, value) ==
    IF key \in DOMAIN app_config THEN [app_config EXCEPT ![key] = value] ELSE app_config

SetConfig(key, value) ==
    /\ cfg_writes < MaxConfigWrites
    /\ cfg_writes' = cfg_writes + 1
    /\ writer = 0
    /\ app_config' = set_config(key, value)
    /\ UNCHANGED <<monthly_budget, daily_usage, roast_log, today, writer, txn,
                   pc, req, result, flash, trace, obs>>

\* a step of the handler serving request r
Serve(r) ==
    \/ KillSwitch(r) \/ ValidateInput(r) \/ CheckBudget(r)
    \/ CheckRateLimit(r) \/ RoastCodeReturns(r) \/ RoastCodeRaises(r)
    \/ Persist(r) \/ RecordCost(r) \/ UsageSession(r) \/ UsageIp(r) \/ UsageCommit(r)

InFlight(r) == pc[r] \notin Terminal \cup {"idle"}

-----------------------------------------------------------------------------
(* Spec: requests served concurrently, the store may raise, config as seeded *)

Next ==
    \E r \in Requests : Submit(r) \/ Serve(r) \/ BusyTimeout(r) \/ StoreFault(r)

Spec == Init /\ [][Next]_vars

-----------------------------------------------------------------------------
(* SpecLive: two requests at a time served concurrently, in the order of their
   numbers, with the handler of every request kept running: a handler step that
   stays possible is taken, roast_code() returns or raises, and a statement
   waiting for the write lock gets it or times out; the store raises for lock
   timeouts only *)

SubmitSecond(r) ==
    /\ Cardinality({q \in Requests : InFlight(q)}) <= 1
    /\ \A q \in Requests : q < r => pc[q] # "idle"
    /\ Submit(r)

NextLive ==
    \E r \in Requests : SubmitSecond(r) \/ Serve(r) \/ BusyTimeout(r)

SpecLive ==
    /\ Init
    /\ [][NextLive]_vars
    /\ \A r \in Requests : WF_vars(Serve(r) \/ BusyTimeout(r))

-----------------------------------------------------------------------------
(* SpecAdmin: one request at a time, in the order of their numbers, while the
   admin edits the config *)

SubmitAlone(r) ==
    /\ \A q \in Requests : ~InFlight(q)
    /\ \A q \in Requests : q < r => pc[q] # "idle"
    /\ Submit(r)

NextAdmin ==
    \/ \E r \in Requests : SubmitAlone(r) \/ Serve(r) \/ StoreFault(r)
    \/ \E key \in ConfigKeys : \E value \in ConfigValues(key) : SetConfig(key, value)

SpecAdmin == Init /\ [][NextAdmin]_vars

\* the sum of f over the set S
RECURSIVE SumOver(_, _)
SumOver(f, S) ==
    IF S = {} THEN 0
    ELSE LET x == CHOOSE x \in S : TRUE IN f[x] + SumOver(f, S \ {x})

-----------------------------------------------------------------------------
(* roast_code: app/roaster.py.  The API call with its tenacity retry, one action
   per attempt of call_claude(); trace[r] lists the attempts with their outcome *)

\* what client.messages.create() raises: connection failure, HTTP 500, HTTP 400
\* (invalid request), and a response that does not match the schema
ApiErrors == {"APIConnectionError", "InternalServerError", "BadRequestError",
              "APIResponseValidationError"}

\* the classes of the anthropic package an exception is an instance of
Bases(e) ==
    CASE e = "APIConnectionError" -> {"APIConnectionError", "APIError"}
      [] e = "InternalServerError" -> {"InternalServerError", "APIStatusError", "APIError"}
      [] e = "BadRequestError" -> {"BadRequestError", "APIStatusError", "APIError"}
      [] e = "APIResponseValidationError" -> {"APIResponseValidationError", "APIError"}

isinstance(e, classes) == Bases(e) \cap classes # {}

\* retry=lambda retry_state: ..., for the outcome of an attempt
retry_predicate(outcome) ==
    IF outcome # "ok"
    THEN isinstance(outcome, {"APIStatusError", "APIConnectionError"})
    ELSE FALSE

\* stop=stop_after_attempt(2)
stop_after_attempt == 2

\* the attempts of call_claude() a request has made
Attempts(r) == SelectSeq(trace[r], LAMBDA e : e[1] = "call_claude")

\* one attempt of call_claude(): the response comes and roast_code() returns its
\* cost, or the attempt raises and tenacity retries or gives up
CallClaude(r) ==
    /\ pc[r] = "roast_code"
    /\ \E outcome \in {"ok"} \cup ApiErrors :
          LET attempt_number == Len(Attempts(r)) + 1
              attempted == Append(trace[r], <<"call_claude", outcome>>)
          IN  IF outcome = "ok"
              THEN /\ \E c \in Costs :
                         result' = [result EXCEPT ![r] = [ok |-> TRUE, cost_cents |-> c]]
                   /\ trace' = [trace EXCEPT ![r] = Append(attempted, <<"roast_code", "return">>)]
                   /\ Goto(r, "persist")
                   /\ UNCHANGED <<req, flash>>
              ELSE IF retry_predicate(outcome) /\ attempt_number < stop_after_attempt
              THEN /\ trace' = [trace EXCEPT ![r] = attempted]
                   /\ UNCHANGED <<pc, req, result, flash>>
              ELSE /\ trace' = [trace EXCEPT ![r] = Append(attempted, <<"roast_code", "raise">>)]
                   /\ Flash(r, RetryMsg)
                   /\ Respond(r, "failed")
                   /\ UNCHANGED result
    /\ UNCHANGED <<store, today, writer, txn, cfg_writes, obs>>

\* no ANTHROPIC_API_KEY: the mock response, cost 0.0, without an API call
MockRoast(r) ==
    /\ pc[r] = "roast_code"
    /\ Attempts(r) = <<>>
    /\ result' = [result EXCEPT ![r] = [ok |-> TRUE, cost_cents |-> 0]]
    /\ Ended(r, "roast_code", "return")
    /\ Goto(r, "persist")
    /\ UNCHANGED <<store, today, writer, txn, req, flash, cfg_writes, obs>>

(* SpecRoaster: one request at a time through the gate, the model call attempt
   by attempt *)

NextRoaster ==
    \E r \in Requests :
        \/ SubmitAlone(r)
        \/ KillSwitch(r) \/ ValidateInput(r) \/ CheckBudget(r) \/ CheckRateLimit(r)
        \/ CallClaude(r) \/ MockRoast(r)
        \/ Persist(r) \/ RecordCost(r) \/ UsageSession(r) \/ UsageIp(r) \/ UsageCommit(r)

SpecRoaster == Init /\ [][NextRoaster]_vars

-----------------------------------------------------------------------------
(* SpecBudget: the budget ledger called directly, as tests/test_budget.py does,
   on a fresh monthly_budget table and a config with the budget keys set *)

MaxCost == 2

BudgetConfigs ==
    {[SeededConfig EXCEPT !["monthly_budget_cents"] = ToStr(l),
                          !["cost_per_roast_cents"] = ToStr(c),
                          !["budget_warning_threshold"] = t] :
        l \in 0..MaxCents, c \in 0..MaxCost, t \in {"0", "80", "100"}}

InitBudget ==
    /\ app_config \in BudgetConfigs
    /\ monthly_budget = EmptyTable
    /\ daily_usage = EmptyTable
    /\ roast_log = {}
    /\ today = 0
    /\ writer = 0
    /\ txn = NoTxn
    /\ pc = [r \in Requests |-> "idle"]
    /\ req = [r \in Requests |-> NoReq]
    /\ result = [r \in Requests |-> NoResult]
    /\ flash = [r \in Requests |-> NoFlash]
    /\ trace = [r \in Requests |-> <<>>]
    /\ cfg_writes = 0
    /\ obs = NoObs

Observe(call, args, ret) == obs' = [obs EXCEPT !.call = call, !.args = args, !.ret = ret]

CallRecordCost(cost_cents) ==
    /\ get_month_spend(get_current_month) + cost_cents <= MaxCents + MaxCost
    /\ monthly_budget' = upsert_cost(monthly_budget, get_current_month, cost_cents)
    /\ Observe("record_cost", <<cost_cents>>, Returned(<<>>))
    /\ UNCHANGED <<app_config, daily_usage, roast_log, today, writer, txn, pc, req,
                   result, flash, trace, cfg_writes>>

CallCheckBudget ==
    /\ Observe("check_budget", <<>>, check_budget)
    /\ UNCHANGED <<store, today, writer, txn, pc, req, result, flash, trace, cfg_writes>>

CallGetMonthSpend ==
    /\ Observe("get_month_spend", <<>>, Returned(get_month_spend(get_current_month)))
    /\ UNCHANGED <<store, today, writer, txn, pc, req, result, flash, trace, cfg_writes>>

NextBudget ==
    \/ \E c \in 1..MaxCost : CallRecordCost(c)
    \/ CallCheckBudget
    \/ CallGetMonthSpend

SpecBudget == InitBudget /\ [][NextBudget]_vars

-----------------------------------------------------------------------------
(* SpecRate: the rate limiter called directly, as tests/test_rate_limit.py does,
   on a fresh daily_usage table and a config with the three limits set *)

MaxLimit == 2
MaxCalls == 3

RateConfigs ==
    {[SeededConfig EXCEPT !["daily_roasts_per_session"] = ToStr(l),
                          !["daily_roasts_per_ip"] = i,
                          !["daily_roasts_global"] = g] :
        l \in 0..MaxLimit, i \in {"1", "3", "abc"}, g \in {"2", "6", "abc"}}

InitRate ==
    /\ app_config \in RateConfigs
    /\ monthly_budget = EmptyTable
    /\ daily_usage = EmptyTable
    /\ roast_log = {}
    /\ today = 0
    /\ writer = 0
    /\ txn = NoTxn
    /\ pc = [r \in Requests |-> "idle"]
    /\ req = [r \in Requests |-> NoReq]
    /\ result = [r \in Requests |-> NoResult]
    /\ flash = [r \in Requests |-> NoFlash]
    /\ trace = [r \in Requests |-> <<>>]
    /\ cfg_writes = 0
    /\ obs = NoObs

\* record_usage() in the request context of visitor v; both upserts and the commit
CallRecordUsage(v) ==
    /\ obs.n[v[1]] < MaxCalls
    /\ daily_usage' = commit([begin_write EXCEPT
                         !.daily_usage = record_usage_second(
                                            record_usage_first(@, today, v[1]),
                                            today, v[2])]).daily_usage
    /\ obs' = [obs EXCEPT !.call = "record_usage", !.args = v, !.ret = Returned(<<>>),
                          !.n[v[1]] = @ + 1]
    /\ UNCHANGED <<app_config, monthly_budget, roast_log, today, writer, txn, pc, req,
                   result, flash, trace, cfg_writes>>

CallCheckRateLimit(v, hour) ==
    /\ Observe("check_rate_limit", <<v[1], v[2], hour>>, check_rate_limit(v[1], v[2], hour))
    /\ UNCHANGED <<store, today, writer, txn, pc, req, result, flash, trace, cfg_writes>>

CallGetRemainingRoasts(s) ==
    /\ Observe("get_remaining_roasts", <<s>>, get_remaining_roasts(s))
    /\ UNCHANGED <<store, today, writer, txn, pc, req, result, flash, trace, cfg_writes>>

NextRate ==
    \/ \E v \in Visitors : CallRecordUsage(v)
    \/ \E v \in Visitors, hour \in Hours : CallCheckRateLimit(v, hour)
    \/ \E s \in Sessions : CallGetRemainingRoasts(s)

SpecRate == InitRate /\ [][NextRate]_vars

-----------------------------------------------------------------------------
(* SpecUsage: record_usage(), record_cost() and prune_old_usage() called directly
   over several days, as test_prune_old_usage and test_record_usage_... do *)

MaxDay == 2
MaxUsageCalls == 3

\* the days_to_keep a caller passes: the test's 1, the default 7, and 0
DaysToKeep == {0, 1, 7}

\* mutant: the DELETE has no WHERE clause
prune_old_usage_all(t, days_to_keep) == EmptyTable

\* mutant: the DELETE reaches the session-tagged rows only
prune_old_usage_sessions(t, days_to_keep) ==
    LET kept == {k \in DOMAIN t : ~(k[1] < today - days_to_keep /\ k[2][1] = "session")}
    IN  IF kept = {} THEN EmptyTable ELSE [k \in kept |-> t[k]]

\* mutant: the cutoff day itself is deleted as well
prune_old_usage_le(t, days_to_keep) ==
    LET kept == {k \in DOMAIN t : ~(k[1] <= today - days_to_keep)}
    IN  IF kept = {} THEN EmptyTable ELSE [k \in kept |-> t[k]]

\* DELETE FROM daily_usage WHERE date < cutoff, cutoff = today - days_to_keep
prune_old_usage(t, days_to_keep) ==
    LET kept == {k \in DOMAIN t : ~(k[1] < today - days_to_keep)}
    IN  IF kept = {} THEN EmptyTable ELSE [k \in kept |-> t[k]]

CallPruneOldUsage(days_to_keep) ==
    /\ daily_usage' = prune_old_usage(daily_usage, days_to_keep)
    /\ Observe("prune_old_usage", <<days_to_keep>>, Returned(<<>>))
    /\ UNCHANGED <<app_config, monthly_budget, roast_log, today, writer, txn, pc, req,
                   result, flash, trace, cfg_writes>>

\* date.today() moves on
Midnight ==
    /\ today < MaxDay
    /\ today' = today + 1
    /\ UNCHANGED <<store, writer, txn, pc, req, result, flash, trace, cfg_writes, obs>>

\* the calls of one run: at most MaxUsageCalls roasts recorded, one of them paid
RecordUsageOnce(v) ==
    /\ SumOver(obs.n, Sessions) < MaxUsageCalls
    /\ CallRecordUsage(v)

RecordCostOnce(cost_cents) ==
    /\ monthly_budget = EmptyTable
    /\ CallRecordCost(cost_cents)

NextUsage ==
    \/ \E v \in Visitors : RecordUsageOnce(v)
    \/ \E c \in 1..MaxCost : RecordCostOnce(c)
    \/ \E d \in DaysToKeep : CallPruneOldUsage(d)
    \/ Midnight

SpecUsage == Init /\ [][NextUsage]_vars

-----------------------------------------------------------------------------
(* create_app: app/__init__.py.  obs follows the start of the process: the step
   create_app() has reached, in args the exception prune_old_usage() raised ("" for
   none) and in ret, once create_app() has ended, the log records written about it *)

DEFAULT_CONFIG ==
    [k \in ConfigKeys |->
        CASE k = "monthly_budget_cents" -> "2000"
          [] k = "cost_per_roast_cents" -> "1"
          [] k = "max_input_chars" -> "15000"
          [] k = "max_input_lines" -> "500"
          [] k = "daily_roasts_per_session" -> "10"
          [] k = "daily_roasts_per_ip" -> "30"
          [] k = "daily_roasts_global" -> "500"
          [] k = "enable_roasting" -> "true"
          [] k = "default_model" -> "claude-haiku-4-5-20251001"
          [] k = "budget_warning_threshold" -> "80"]

\* mutant: INSERT OR REPLACE, every default is written over the stored value
init_db_replace(config) ==
    [k \in DOMAIN config \cup ConfigKeys |->
        IF k \in ConfigKeys THEN DEFAULT_CONFIG[k] ELSE config[k]]

\* INSERT INTO app_config ... ON CONFLICT(key) DO NOTHING, for every default
init_db(config) ==
    [k \in DOMAIN config \cup ConfigKeys |->
        IF k \in DOMAIN config THEN config[k] ELSE DEFAULT_CONFIG[k]]

\* prune_old_usage() as create_app() calls it
DefaultDaysToKeep == 7

\* the day the process starts, and usage rows left by an earlier run: two of a
\* day older than the cutoff, two of the cutoff day
StartDay == 8

OldUsage ==
    record_usage_second(
        record_usage_first(
            record_usage_second(record_usage_first(EmptyTable, 0, "s1"), 0, "h1"),
            StartDay - DefaultDaysToKeep, "s1"),
        StartDay - DefaultDaysToKeep, "h1")

InitStartup ==
    /\ app_config \in {EmptyTable, SeededConfig}
    /\ monthly_budget = EmptyTable
    /\ daily_usage \in {EmptyTable, OldUsage}
    /\ roast_log = {}
    /\ today = StartDay
    /\ writer = 0
    /\ txn = NoTxn
    /\ pc = [r \in Requests |-> "idle"]
    /\ req = [r \in Requests |-> NoReq]
    /\ result = [r \in Requests |-> NoResult]
    /\ flash = [r \in Requests |-> NoFlash]
    /\ trace = [r \in Requests |-> <<>>]
    /\ cfg_writes = 0
    /\ obs = NoObs

\* with app.app_context(): init_db()
StartInitDb ==
    /\ obs.call = ""
    /\ app_config' = init_db(app_config)
    /\ Observe("init_db", <<>>, Returned(<<>>))
    /\ UNCHANGED <<monthly_budget, daily_usage, roast_log, today, writer, txn, pc, req,
                   result, flash, trace, cfg_writes>>

\* try: prune_old_usage() -- it returns
StartPruneReturns ==
    /\ obs.call = "init_db"
    /\ daily_usage' = prune_old_usage(daily_usage, DefaultDaysToKeep)
    /\ Observe("prune_old_usage", <<"">>, Returned(<<>>))
    /\ UNCHANGED <<app_config, monthly_budget, roast_log, today, writer, txn, pc, req,
                   result, flash, trace, cfg_writes>>

\* try: prune_old_usage() -- the store raises, get_db() rolls back
StartPruneRaises ==
    /\ obs.call = "init_db"
    /\ Observe("prune_old_usage", <<"OperationalError">>, Raised("OperationalError"))
    /\ UNCHANGED <<store, today, writer, txn, pc, req, result, flash, trace, cfg_writes>>

\* except Exception: pass -- how create_app() goes on after the try block, with
\* the log records it has written
except_pass(outcome) == Returned(<<>>)

\* the rest of create_app(): headers, routes, return app
CreateAppEnds ==
    /\ obs.call = "prune_old_usage"
    /\ Observe("create_app", obs.args, except_pass(obs.ret))
    /\ UNCHANGED <<store, today, writer, txn, pc, req, result, flash, trace, cfg_writes>>

\* the application object exists and serves requests
Serving == obs.call = "create_app" /\ obs.ret.raised = ""

SubmitServing(r) ==
    /\ Serving
    /\ SubmitAlone(r)

NextStartup ==
    \/ StartInitDb \/ StartPruneReturns \/ StartPruneRaises \/ CreateAppEnds
    \/ \E r \in Requests : SubmitServing(r) \/ Serve(r)

SpecStartup == InitStartup /\ [][NextStartup]_vars

-----------------------------------------------------------------------------
(* SpecDefaults: the checks of the gate called directly on a store whose
   app_config lacks some of its rows, with counters near the defaults the
   callers of get_config() pass *)

\* the keys the gate reads
GateKeys == ConfigKeys \ {"default_model"}

Restrict(f, K) == [k \in K |-> f[k]]

\* the month's row after paid roasts, or no row
LedgerSamples ==
    {EmptyTable} \cup {upsert_cost(EmptyTable, 0, c) : c \in {1999, 2000}}

\* today's rows after a roasts of session s1 and b of session s2, all from h1
UsageTable(a, b) ==
    LET rows == {<< <<0, SessionIdentity("s1")>>, a >>,
                 << <<0, SessionIdentity("s2")>>, b >>,
                 << <<0, IpIdentity("h1")>>, a + b >>}
        kept == {x \in rows : x[2] > 0}
    IN  [k \in {x[1] : x \in kept} |-> (CHOOSE x \in kept : x[1] = k)[2]]

UsageSamples == {UsageTable(a, b) : a \in {0, 9, 10}, b \in {0, 20, 240}}

InitDefaults ==
    /\ \E absent \in SUBSET GateKeys : app_config = Restrict(SeededConfig, ConfigKeys \ absent)
    /\ monthly_budget \in LedgerSamples
    /\ daily_usage \in UsageSamples
    /\ roast_log = {}
    /\ today = 0
    /\ writer = 0
    /\ txn = NoTxn
    /\ pc = [r \in Requests |-> "idle"]
    /\ req = [r \in Requests |-> NoReq]
    /\ result = [r \in Requests |-> NoResult]
    /\ flash = [r \in Requests |-> NoFlash]
    /\ trace = [r \in Requests |-> <<>>]
    /\ cfg_writes = 0
    /\ obs = NoObs

\* the kill switch test of submit_roast: whether roasting is enabled
CallKillSwitch ==
    /\ Observe("enable_roasting", <<>>, Returned(get_config("enable_roasting", "true") = "true"))
    /\ UNCHANGED <<store, today, writer, txn, pc, req, result, flash, trace, cfg_writes>>

CallValidateInput(code) ==
    /\ Observe("validate_input", <<code>>, validate_input(code))
    /\ UNCHANGED <<store, today, writer, txn, pc, req, result, flash, trace, cfg_writes>>

NextDefaults ==
    \/ CallKillSwitch
    \/ \E code \in Codes : CallValidateInput(code)
    \/ CallCheckBudget
    \/ \E v \in Visitors, hour \in Hours : CallCheckRateLimit(v, hour)
    \/ \E s \in Sessions : CallGetRemainingRoasts(s)

SpecDefaults == InitDefaults /\ [][NextDefaults]_vars

-----------------------------------------------------------------------------
(* get_ip_hash: app/rate_limit.py.  SpecProxy: requests reach the app through
   reverse proxies, each appending the address of its peer to X-Forwarded-For,
   and record their usage.  obs.args holds the deployment: TRUSTED_PROXY_COUNT
   and the number of proxies in front of the app; the first entry of trace[r]
   is the request as the app receives it *)

MaxProxies == 2
MaxSpoof == 1

Clients == {"c1", "c2"}

\* the session cookie of the visitor at a client address
SessionOf(c) == IF c = "c1" THEN "s1" ELSE "s2"

\* what a client may put into the X-Forwarded-For header it sends
SpoofAlphabet == {"c2", "x"}

SeqsUpTo(S, n) == UNION {[1..k -> S] : k \in 0..n}

ProxyAddr(i) == "proxy" \o ToStr(i)

\* the request of a client at address c that sent the header entries sent, after
\* p proxies: proxy 1 appends c, proxy i the address of proxy i - 1
Forwarded(sent, c, p, session_id) ==
    [has_xff |-> sent # <<>> \/ p > 0,
     xff |-> sent \o [i \in 1..p |-> IF i = 1 THEN c ELSE ProxyAddr(i - 1)],
     remote_addr |-> IF p = 0 THEN c ELSE ProxyAddr(p),
     sent |-> Len(sent),
     client |-> c,
     session_id |-> session_id]

\* request.access_route: the X-Forwarded-For list, or the peer address alone
access_route(environ) ==
    IF environ.has_xff THEN environ.xff
    ELSE IF environ.remote_addr # "" THEN <<environ.remote_addr>>
    ELSE <<>>

\* hashlib.sha256(ip.encode()).hexdigest()[:16]
sha256_16(ip) == "sha256:" \o ip

\* mutant: the header is used whatever TRUSTED_PROXY_COUNT is
get_ip_hash_any_header(trusted_proxies, environ) ==
    LET route == access_route(environ)
        idx == Max(0, Len(route) - trusted_proxies)
    IN  sha256_16(IF route # <<>> /\ idx < Len(route) THEN route[idx + 1]
                  ELSE IF route # <<>> THEN route[Len(route)]
                  ELSE IF environ.remote_addr # "" THEN environ.remote_addr
                  ELSE "127.0.0.1")

\* mutant: the leftmost entry of the chain is taken
get_ip_hash_leftmost(trusted_proxies, environ) ==
    LET route == access_route(environ)
    IN  sha256_16(IF trusted_proxies > 0 /\ route # <<>> THEN route[1]
                  ELSE IF environ.remote_addr # "" THEN environ.remote_addr
                  ELSE "127.0.0.1")

get_ip_hash(trusted_proxies, environ) ==
    LET route == access_route(environ)
        idx == Max(0, Len(route) - trusted_proxies)
    IN  sha256_16(IF trusted_proxies > 0 /\ route # <<>> THEN route[idx + 1]
                  ELSE IF environ.remote_addr # "" THEN environ.remote_addr
                  ELSE "127.0.0.1")

InitProxy ==
    /\ app_config = SeededConfig
    /\ monthly_budget = EmptyTable
    /\ daily_usage = EmptyTable
    /\ roast_log = {}
    /\ today = 0
    /\ writer = 0
    /\ txn = NoTxn
    /\ pc = [r \in Requests |-> "idle"]
    /\ req = [r \in Requests |-> NoReq]
    /\ result = [r \in Requests |-> NoResult]
    /\ flash = [r \in Requests |-> NoFlash]
    /\ trace = [r \in Requests |-> <<>>]
    /\ cfg_writes = 0
    /\ \E n, p \in 0..MaxProxies : obs = [NoObs EXCEPT !.args = <<n, p>>]

TRUSTED_PROXY_COUNT == obs.args[1]

\* a request reaches the app, while at most one other is being served
Arrive(r) ==
    /\ pc[r] = "idle"
    /\ Cardinality({q \in Requests : InFlight(q)}) <= 1
    /\ \A q \in Requests : q < r => pc[q] # "idle"
    /\ \E c \in Clients, sent \in SeqsUpTo(SpoofAlphabet, MaxSpoof) :
          trace' = [trace EXCEPT ![r] =
                       << <<"environ", Forwarded(sent, c, obs.args[2], SessionOf(c))>> >>]
    /\ Goto(r, "arrived")
    /\ UNCHANGED <<store, today, writer, txn, req, result, flash, cfg_writes, obs>>

\* record_usage() reads the session id and the ip hash of the request
ReadIdentity(r) ==
    /\ pc[r] = "arrived"
    /\ req' = [req EXCEPT ![r] =
                  [session_id |-> trace[r][1][2].session_id,
                   ip_hash |-> get_ip_hash(TRUSTED_PROXY_COUNT, trace[r][1][2])]]
    /\ Goto(r, "record_usage")
    /\ UNCHANGED <<store, today, writer, txn, result, flash, trace, cfg_writes, obs>>

NextProxy ==
    \E r \in Requests :
        Arrive(r) \/ ReadIdentity(r) \/ UsageSession(r) \/ UsageIp(r) \/ UsageCommit(r)

SpecProxy == InitProxy /\ [][NextProxy]_vars

-----------------------------------------------------------------------------
(* SpecLedger: the budget ledger and the reads of the gate called directly over
   several months, the caller keeping in obs.m its own count of the
   record_cost() calls it made in each month *)

MaxLedgerCalls == 3

\* the months a caller asks about: those the clock reaches and the one after
Months == 0..((MaxDay \div MonthLen) + 1)

\* a count kept per key, 0 for a key without entry
Tally(t, k) == IF k \in DOMAIN t THEN t[k] ELSE 0

InitLedger ==
    /\ app_config = SeededConfig
    /\ monthly_budget = EmptyTable
    /\ daily_usage \in {EmptyTable, UsageTable(1, 1)}
    /\ roast_log = {}
    /\ today = 0
    /\ writer = 0
    /\ txn = NoTxn
    /\ pc = [r \in Requests |-> "idle"]
    /\ req = [r \in Requests |-> NoReq]
    /\ result = [r \in Requests |-> NoResult]
    /\ flash = [r \in Requests |-> NoFlash]
    /\ trace = [r \in Requests |-> <<>>]
    /\ cfg_writes = 0
    /\ obs = NoObs @@ [m |-> EmptyTable]

\* record_cost(cost_cents), counted by the caller
RecordCostTallied(cost_cents) ==
    /\ Tally(obs.m, get_current_month) < MaxLedgerCalls
    /\ monthly_budget' = upsert_cost(monthly_budget, get_current_month, cost_cents)
    /\ obs' = [obs EXCEPT !.call = "record_cost", !.args = <<cost_cents>>,
                          !.ret = Returned(<<>>),
                          !.m = IF get_current_month \in DOMAIN @
                                THEN [@ EXCEPT ![get_current_month] = @ + 1]
                                ELSE @ @@ (get_current_month :> 1)]
    /\ UNCHANGED <<app_config, daily_usage, roast_log, today, writer, txn, pc, req,
                   result, flash, trace, cfg_writes>>

\* mutant: a month without a row gets one when it is asked about
CallGetMonthSpendOfCreates(month) ==
    /\ Observe("get_month_spend", <<month>>, Returned(get_month_spend(month)))
    /\ monthly_budget' = IF month \in DOMAIN monthly_budget THEN monthly_budget
                         ELSE monthly_budget @@ (month :> [spent_cents |-> 0, roast_count |-> 0])
    /\ UNCHANGED <<app_config, daily_usage, roast_log, today, writer, txn, pc, req,
                   result, flash, trace, cfg_writes>>

\* get_month_spend(month)
CallGetMonthSpendOf(month) ==
    /\ Observe("get_month_spend", <<month>>, Returned(get_month_spend(month)))
    /\ UNCHANGED <<store, today, writer, txn, pc, req, result, flash, trace, cfg_writes>>

\* get_month_roast_count(month)
CallGetMonthRoastCountOf(month) ==
    /\ Observe("get_month_roast_count", <<month>>, Returned(get_month_roast_count(month)))
    /\ UNCHANGED <<store, today, writer, txn, pc, req, result, flash, trace, cfg_writes>>

NextLedger ==
    \/ \E c \in 0..MaxCost : RecordCostTallied(c)
    \/ \E month \in Months : CallGetMonthSpendOf(month) \/ CallGetMonthRoastCountOf(month)
    \/ CallCheckBudget
    \/ \E v \in Visitors, hour \in Hours : CallCheckRateLimit(v, hour)
    \/ \E s \in Sessions : CallGetRemainingRoasts(s)
    \/ Midnight

SpecLedger == InitLedger /\ [][NextLedger]_vars

-----------------------------------------------------------------------------
(* SpecQuota: a server that handles up to obs.args[1] requests of one visitor at
   the same time, each handler taking its next request when it has answered the
   last one; the config is fixed, with the session limit and the budget as the
   tiers that bind *)

\* the ip and global limits out of reach and a budget of one estimate: session
\* limit 1 with 1 cent at 1 cent a roast, session limit 2 with 2 cents at 2 cents
\* a roast
QuotaConfigs ==
    {[SeededConfig EXCEPT !["daily_roasts_per_session"] = e,
                          !["daily_roasts_per_ip"] = "30",
                          !["daily_roasts_global"] = "500",
                          !["monthly_budget_cents"] = e,
                          !["cost_per_roast_cents"] = e] :
        e \in {"1", "2"}}

InitQuota ==
    /\ app_config \in QuotaConfigs
    /\ monthly_budget = EmptyTable
    /\ daily_usage = EmptyTable
    /\ roast_log = {}
    /\ today = 0
    /\ writer = 0
    /\ txn = NoTxn
    /\ pc = [r \in Requests |-> "idle"]
    /\ req = [r \in Requests |-> NoReq]
    /\ result = [r \in Requests |-> NoResult]
    /\ flash = [r \in Requests |-> NoFlash]
    /\ trace = [r \in Requests |-> <<>>]
    /\ cfg_writes = 0
    /\ \E k \in 1..NumRequests : obs = [NoObs EXCEPT !.args = <<k>>]

\* the number of requests the server handles at the same time
Concurrency == obs.args[1]

\* a request arrives and a free handler takes it
SubmitUpTo(r) ==
    /\ Cardinality({q \in Requests : InFlight(q)}) < Concurrency
    /\ \A q \in Requests : q < r => pc[q] # "idle"
    /\ Submit(r)

\* the response is out; the handler is free for its next request
Recycle(r) ==
    /\ pc[r] \in Terminal
    /\ Goto(r, "idle")
    /\ result' = [result EXCEPT ![r] = NoResult]
    /\ flash' = [flash EXCEPT ![r] = NoFlash]
    /\ trace' = [trace EXCEPT ![r] = <<>>]
    /\ UNCHANGED <<store, today, writer, txn, req, cfg_writes, obs>>

\* the visitor all the requests come from
OneVisitor == [session_id |-> "s1", ip_hash |-> "h1"]

\* a step of the handler serving a request of that visitor
ServeVisitor(r) ==
    /\ Serve(r)
    /\ req'[r] \in {NoReq, OneVisitor}

NextQuota ==
    \E r \in Requests : SubmitUpTo(r) \/ ServeVisitor(r) \/ Recycle(r)

SpecQuota == InitQuota /\ [][NextQuota]_vars

-----------------------------------------------------------------------------
(* SpecCounters: record_usage() calls of several visitors running at the same
   time over several days, each in a get_db() block that may fail at any
   statement, with prune_old_usage() called in between, on a store that holds
   the rows of two earlier roasts; req[r].today is the date record_usage() read
   before it opened its connection *)

InitCounters ==
    /\ app_config = SeededConfig
    /\ monthly_budget = EmptyTable
    /\ daily_usage = UsageTable(1, 1)
    /\ roast_log = {}
    /\ today = 0
    /\ writer = 0
    /\ txn = NoTxn
    /\ pc = [r \in Requests |-> "idle"]
    /\ req = [r \in Requests |-> NoReq]
    /\ result = [r \in Requests |-> NoResult]
    /\ flash = [r \in Requests |-> NoFlash]
    /\ trace = [r \in Requests |-> <<>>]
    /\ cfg_writes = 0
    /\ obs = NoObs

\* record_usage(), lines 77-79: today, session_id and ip_hash are read once
EnterRecordUsage(r) ==
    /\ pc[r] = "idle"
    /\ \A q \in Requests : q < r => pc[q] # "idle"
    /\ \E v \in Visitors :
          req' = [req EXCEPT ![r] = [session_id |-> v[1], ip_hash |-> v[2],
                                     today |-> today]]
    /\ Goto(r, "record_usage")
    /\ UNCHANGED <<store, today, writer, txn, result, flash, trace, cfg_writes, obs>>

\* record_usage(): the session-tagged upsert, for the date read at the start
UsageSessionOn(r) ==
    /\ pc[r] = "record_usage"
    /\ writer = 0
    /\ writer' = r
    /\ txn' = [begin_write EXCEPT
                  !.daily_usage = record_usage_first(@, req[r].today, req[r].session_id)]
    /\ Goto(r, "usage_ip")
    /\ UNCHANGED <<store, today, req, result, flash, trace, cfg_writes, obs>>

\* record_usage(): the ip-tagged upsert, same date, same transaction
UsageIpOn(r) ==
    /\ pc[r] = "usage_ip"
    /\ txn' = [txn EXCEPT
                  !.daily_usage = record_usage_second(@, req[r].today, req[r].ip_hash)]
    /\ Goto(r, "usage_commit")
    /\ UNCHANGED <<store, today, writer, req, result, flash, trace, cfg_writes, obs>>

\* prune_old_usage(): the DELETE gets the write lock and is committed
PruneWhenFree(days_to_keep) ==
    /\ writer = 0
    /\ CallPruneOldUsage(days_to_keep)

\* prune_old_usage(): the DELETE raises (lock timeout, store error), rollback
PruneRaises(days_to_keep) ==
    /\ Observe("prune_old_usage", <<days_to_keep>>, Raised("OperationalError"))
    /\ UNCHANGED <<store, today, writer, txn, pc, req, result, flash, trace, cfg_writes>>

NextCounters ==
    \/ \E r \in Requests :
          \/ EnterRecordUsage(r) \/ UsageSessionOn(r) \/ UsageIpOn(r) \/ UsageCommit(r)
          \/ StoreFault(r) \/ BusyTimeout(r)
    \/ \E d \in DaysToKeep : PruneWhenFree(d) \/ PruneRaises(d)
    \/ Midnight

SpecCounters == InitCounters /\ [][NextCounters]_vars

-----------------------------------------------------------------------------
(* SpecDays: the rate limiter called directly over several days, with a session
   limit of 1 or 2 under an ip ceiling and a global cap that are both tight or
   both wide; the caller keeps in obs.d, per date and identity, the number of
   roasts it has recorded *)

DayConfigs ==
    {c \in RateConfigs :
        /\ c["daily_roasts_per_session"] \in {"1", "2"}
        /\ <<c["daily_roasts_per_ip"], c["daily_roasts_global"]>>
               \in {<<"1", "2">>, <<"3", "6">>}}

InitDays ==
    /\ app_config \in DayConfigs
    /\ monthly_budget = EmptyTable
    /\ daily_usage = EmptyTable
    /\ roast_log = {}
    /\ today = 0
    /\ writer = 0
    /\ txn = NoTxn
    /\ pc = [r \in Requests |-> "idle"]
    /\ req = [r \in Requests |-> NoReq]
    /\ result = [r \in Requests |-> NoResult]
    /\ flash = [r \in Requests |-> NoFlash]
    /\ trace = [r \in Requests |-> <<>>]
    /\ cfg_writes = 0
    /\ obs = NoObs @@ [d |-> EmptyTable]

\* one more in the caller's count for key k
Bump(t, k) == IF k \in DOMAIN t THEN [t EXCEPT ![k] = @ + 1] ELSE t @@ (k :> 1)

\* record_usage() in the request context of visitor v, counted by the caller
RecordUsageDated(v) ==
    /\ SumOver(obs.n, Sessions) < MaxUsageCalls
    /\ daily_usage' = commit([begin_write EXCEPT
                         !.daily_usage = record_usage_second(
                                            record_usage_first(@, today, v[1]),
                                            today, v[2])]).daily_usage
    /\ obs' = [obs EXCEPT !.call = "record_usage", !.args = v, !.ret = Returned(<<>>),
                          !.n[v[1]] = @ + 1,
                          !.d = Bump(Bump(@, <<today, SessionIdentity(v[1])>>),
                                     <<today, IpIdentity(v[2])>>)]
    /\ UNCHANGED <<app_config, monthly_budget, roast_log, today, writer, txn, pc, req,
                   result, flash, trace, cfg_writes>>

NextDays ==
    \/ \E v \in Visitors : RecordUsageDated(v)
    \/ \E v \in Visitors, hour \in Hours : CallCheckRateLimit(v, hour)
    \/ \E s \in Sessions : CallGetRemainingRoasts(s)
    \/ \E d \in DaysToKeep : CallPruneOldUsage(d)
    \/ Midnight

SpecDays == InitDays /\ [][NextDays]_vars

-----------------------------------------------------------------------------
(* SpecRestart: a process starts with init_db() on the store it finds, new or
   left by an earlier process that may have lacked one of today's config keys;
   then the admin edits the config, costs and usage are recorded, and init_db()
   runs again, as on a restart and before every test *)

\* the app_config left by an earlier process: seeded in full or without the ip
\* ceiling, the kill switch as seeded or edited
LeftConfigs ==
    {Restrict([SeededConfig EXCEPT !["enable_roasting"] = e], ConfigKeys \ absent) :
        e \in {"true", "false"}, absent \in {{}, {"daily_roasts_per_ip"}}}

InitRestart ==
    /\ \/ /\ app_config = EmptyTable
          /\ monthly_budget = EmptyTable
          /\ daily_usage = EmptyTable
       \/ /\ app_config \in LeftConfigs
          /\ monthly_budget \in {EmptyTable, upsert_cost(EmptyTable, 0, 1)}
          /\ daily_usage \in {EmptyTable, UsageTable(1, 1)}
    /\ roast_log = {}
    /\ today = 0
    /\ writer = 0
    /\ txn = NoTxn
    /\ pc = [r \in Requests |-> "idle"]
    /\ req = [r \in Requests |-> NoReq]
    /\ result = [r \in Requests |-> NoResult]
    /\ flash = [r \in Requests |-> NoFlash]
    /\ trace = [r \in Requests |-> <<>>]
    /\ cfg_writes = 0
    /\ obs = NoObs

\* init_db(): the schema script creates no table that exists, the loop inserts
\* the defaults that are missing
CallInitDb ==
    /\ app_config' = init_db(app_config)
    /\ Observe("init_db", <<>>, Returned(<<>>))
    /\ UNCHANGED <<monthly_budget, daily_usage, roast_log, today, writer, txn, pc, req,
                   result, flash, trace, cfg_writes>>

\* create_app() has run init_db() on this store
Initialised == obs.call # ""

\* update_config() posting one key of the form
AdminSetConfig(key, value) ==
    /\ Initialised
    /\ SetConfig(key, value)

RecordCostStarted(cost_cents) ==
    /\ Initialised
    /\ CallRecordCost(cost_cents)

RecordUsageStarted(v) ==
    /\ Initialised
    /\ RecordUsageOnce(v)

NextRestart ==
    \/ CallInitDb
    \/ \E key \in ConfigKeys : \E value \in ConfigValues(key) : AdminSetConfig(key, value)
    \/ \E c \in 1..MaxCost : RecordCostStarted(c)
    \/ \E v \in Visitors : RecordUsageStarted(v)

SpecRestart == InitRestart /\ [][NextRestart]_vars

-----------------------------------------------------------------------------
(* SpecForm: the admin form posted with any field name, on a store that init_db()
   has seeded; obs.posted holds the keys posted so far, and get_config() is
   called for seeded and unseeded keys *)

\* keys that DEFAULT_CONFIG does not hold
UnseededKeys == {"max_output_tokens"}

\* the config_<key> fields a POST to /admin/config may carry, and their values
FormKeys == ConfigKeys \cup UnseededKeys
FormValues == {"0", "abc"}

InitForm ==
    /\ \/ /\ app_config = EmptyTable
          /\ monthly_budget = EmptyTable
          /\ daily_usage = EmptyTable
       \/ /\ app_config \in LeftConfigs
          /\ monthly_budget \in {EmptyTable, upsert_cost(EmptyTable, 0, 1)}
          /\ daily_usage \in {EmptyTable, UsageTable(1, 1)}
    /\ roast_log = {}
    /\ today = 0
    /\ writer = 0
    /\ txn = NoTxn
    /\ pc = [r \in Requests |-> "idle"]
    /\ req = [r \in Requests |-> NoReq]
    /\ result = [r \in Requests |-> NoResult]
    /\ flash = [r \in Requests |-> NoFlash]
    /\ trace = [r \in Requests |-> <<>>]
    /\ cfg_writes = 0
    /\ obs = NoObs @@ [posted |-> {}]

\* update_config() for a form with the field config_<key>
PostConfig(key, value) ==
    /\ Initialised
    /\ cfg_writes < MaxConfigWrites
    /\ cfg_writes' = cfg_writes + 1
    /\ writer = 0
    /\ app_config' = set_config(key, value)
    /\ obs' = [obs EXCEPT !.call = "set_config", !.args = <<key, value>>,
                          !.ret = Returned(<<>>), !.posted = @ \cup {key}]
    /\ UNCHANGED <<monthly_budget, daily_usage, roast_log, today, writer, txn,
                   pc, req, result, flash, trace>>

\* get_config(key, default)
CallGetConfig(key, default) ==
    /\ Initialised
    /\ Observe("get_config", <<key, default>>, Returned(get_config(key, default)))
    /\ UNCHANGED <<store, today, writer, txn, pc, req, result, flash, trace, cfg_writes>>

NextForm ==
    \/ CallInitDb
    \/ \E key \in FormKeys, value \in FormValues : PostConfig(key, value)
    \/ \E key \in FormKeys, default \in {"None", "7"} : CallGetConfig(key, default)

SpecForm == InitForm /\ [][NextForm]_vars

-----------------------------------------------------------------------------
(* Claims about the admission gate *)

GateOrder == <<"kill_switch", "validate_input", "check_budget", "check_rate_limit">>

\* the messages each check rejects with
ReasonTexts(check) ==
    CASE check = "kill_switch" -> {OfflineMsg.text}
      [] check = "validate_input" ->
            {"Paste some code first. We can't roast nothing.",
             "Too long ({} chars). Max is {}.",
             "Too many lines ({}). Max is {}. Paste the worst part."}
      [] check = "check_budget" -> {CoolingDown.text}
      [] check = "check_rate_limit" ->
            {SessionLimitMsg(0, 0).text, NetworkLimitMsg.text, CapacityMsg.text}

HasEnded(r, name, how) == \E i \in DOMAIN trace[r] : trace[r][i] = <<name, how>>

Min(a, b) == IF a <= b THEN a ELSE b

\* C1: the gate evaluates kill-switch, input validation, budget check and
\* rate-limit check in that order; the first check that fails ends the request
\* with that check's message, and nothing is evaluated after it.
C1_GateOrderShortCircuit ==
    \A r \in Requests :
        /\ \A i \in 1..Min(Len(trace[r]), Len(GateOrder)) : trace[r][i][1] = GateOrder[i]
        /\ \A i \in DOMAIN trace[r] :
              trace[r][i][2] = "fail" =>
                  /\ i = Len(trace[r])
                  /\ i <= Len(GateOrder)
                  /\ \A j \in 1..(i - 1) : trace[r][j][2] = "pass"
                  /\ pc[r] = "rejected"
                  /\ flash[r].text \in ReasonTexts(GateOrder[i])
        /\ pc[r] = "rejected" =>
              /\ trace[r] # <<>>
              /\ trace[r][Len(trace[r])][2] = "fail"

\* a request rejected by the budget check while the rate limiter would deny it too
C1_Witness ==
    \E r \in Requests, v \in Visitors, hour \in Hours :
        /\ pc[r] = "rejected"
        /\ trace[r][Len(trace[r])] = <<"check_budget", "fail">>
        /\ flash[r] = CoolingDown
        /\ check_rate_limit(v[1], v[2], hour).raised = ""
        /\ ~check_rate_limit(v[1], v[2], hour).value[1].allowed

\* C2: roast_code is called for a request only after kill-switch, input validation,
\* check_budget and check_rate_limit have all passed for it; a request one of them
\* rejected never has a model call or a model result.
C2_CallOnlyAfterAllPass ==
    \A r \in Requests :
        /\ (pc[r] = "roast_code" \/ result[r].ok
              \/ \E i \in DOMAIN trace[r] : trace[r][i][1] = "roast_code") =>
              /\ Len(trace[r]) >= Len(GateOrder)
              /\ \A i \in 1..Len(GateOrder) : trace[r][i] = <<GateOrder[i], "pass">>
        /\ (\E i \in DOMAIN trace[r] : trace[r][i][2] = "fail") =>
              /\ ~result[r].ok
              /\ \A i \in DOMAIN trace[r] : trace[r][i][1] # "roast_code"

\* one request got its model result while another was rejected by a check
C2_Witness ==
    \E r, q \in Requests :
        /\ HasEnded(r, "roast_code", "return")
        /\ pc[q] = "rejected"

-----------------------------------------------------------------------------
(* Claims about what a request writes *)

AfterCall == {"persist", "record_cost", "record_usage", "usage_ip", "usage_commit", "done"}

\* C3: a request whose model call has not succeeded writes nothing to monthly_budget
\* or daily_usage: every step of such a request, the failing call included, leaves
\* both tables as they were, and no request is in or past record_cost / record_usage
\* without a model result.
C3_FailedCallNoSideEffects ==
    [][\A r \in Requests :
          /\ (pc'[r] # pc[r] /\ ~result'[r].ok) =>
                 UNCHANGED <<monthly_budget, daily_usage>>
          /\ pc'[r] = "failed" => (~result'[r].ok /\ flash'[r] = RetryMsg)
          /\ (pc'[r] \in AfterCall
                \/ \E i \in DOMAIN trace'[r] :
                      trace'[r][i][1] \in {"persist", "record_cost", "record_usage"}) =>
                 (result'[r].ok /\ HasEnded(r, "roast_code", "return")')]_vars

\* a request's model call failed while another request's usage was recorded
C3_Witness ==
    \E r, q \in Requests :
        /\ pc[r] = "failed"
        /\ pc[q] = "done"
        /\ daily_usage # EmptyTable

\* the calls of a request after its model call
AfterRoast(r) == SubSeq(trace[r], Len(GateOrder) + 2, Len(trace[r]))

\* C4: after a successful model call the handler persists the result row, then
\* calls record_cost exactly when the cost is > 0, then record_usage; a request
\* with cost 0 changes daily_usage and never monthly_budget.
C4_RecordingOrder ==
    [][\A r \in Requests :
          /\ (pc'[r] = "done" /\ pc[r] # "done") =>
                /\ AfterRoast(r)' =
                      IF result[r].cost_cents > 0
                      THEN << <<"persist", "return">>, <<"record_cost", "return">>,
                              <<"record_usage", "return">> >>
                      ELSE << <<"persist", "return">>, <<"record_usage", "return">> >>
                /\ daily_usage' # daily_usage
          /\ (pc'[r] # pc[r] /\ result[r].ok /\ result[r].cost_cents = 0) =>
                UNCHANGED monthly_budget
          /\ (pc[r] = "persist" /\ pc'[r] \notin {"persist", "error"}) =>
                /\ roast_log' # roast_log
                /\ pc'[r] = IF result[r].cost_cents > 0 THEN "record_cost" ELSE "record_usage"]_vars

\* a zero-cost roast is done: usage counted, no month row
C4_Witness ==
    \E r \in Requests :
        /\ pc[r] = "done"
        /\ result[r].cost_cents = 0
        /\ monthly_budget = EmptyTable
        /\ daily_usage # EmptyTable

\* the requests whose record_cost call has returned
CostRecorded == {r \in Requests : HasEnded(r, "record_cost", "return")}

\* C5: whatever the interleaving of the requests, the month's spend is the sum of
\* the costs passed to the record_cost calls that returned, and roast_count their
\* number.
C5_NoLostCost ==
    /\ get_month_spend(get_current_month)
          = SumOver([r \in Requests |-> result[r].cost_cents], CostRecorded)
    /\ get_month_roast_count(get_current_month) = Cardinality(CostRecorded)

\* two record_cost calls with different costs have returned
C5_Witness ==
    \E r, q \in Requests :
        /\ r \in CostRecorded /\ q \in CostRecorded
        /\ result[r].cost_cents # result[q].cost_cents

Completed == {r \in Requests : pc[r] = "done"}

SessionTotal ==
    SumCount(daily_usage, {k \in DOMAIN daily_usage : k[1] = today /\ k[2][1] = "session"})

IpTotal ==
    SumCount(daily_usage, {k \in DOMAIN daily_usage : k[1] = today /\ k[2][1] = "ip"})

\* C6: usage increments of requests completing together are never lost: the
\* session-tagged counts and the ip-tagged counts each add up to the number of
\* completed requests, and once every request with a model result has completed,
\* roast_count is the number of them with a positive cost.
C6_NoLostUsage ==
    /\ SessionTotal = Cardinality(Completed)
    /\ IpTotal = Cardinality(Completed)
    /\ (\A r \in Requests : result[r].ok => pc[r] = "done") =>
          get_month_roast_count(get_current_month)
             = Cardinality({r \in Completed : result[r].cost_cents > 0})

\* two requests of one session passed the limit of 1 together and both completed
C6_Witness ==
    /\ \A r \in Requests : pc[r] = "done"
    /\ \E s \in Sessions : usage_of(daily_usage, today, SessionIdentity(s)) >= 2
    /\ \E r \in Requests : result[r].cost_cents > 0

-----------------------------------------------------------------------------
(* Claims about the budget ledger and the rate limiter called directly *)

ConfigNum(key) == ParseNum(app_config[key])

\* C7: check_budget() denies exactly when spend >= limit or
\* spend + cost_per_roast_cents > limit and allows otherwise, for every spend,
\* limit and estimate; with the warning threshold at 0, 80 or 100 alike.
C7_BudgetDecision ==
    obs.call = "check_budget" =>
        /\ obs.ret.raised = ""
        /\ obs.ret.value[1].allowed =
              ~(\/ get_month_spend(get_current_month) >= ConfigNum("monthly_budget_cents")
                \/ get_month_spend(get_current_month) + ConfigNum("cost_per_roast_cents")
                      > ConfigNum("monthly_budget_cents"))
        /\ ~obs.ret.value[1].allowed => obs.ret.value[1].reason = CoolingDown

\* spend == limit - 1 with an estimate of 1 is allowed, and the warning is logged
C7_Witness ==
    /\ obs.call = "check_budget"
    /\ ConfigNum("cost_per_roast_cents") = 1
    /\ get_month_spend(get_current_month) = ConfigNum("monthly_budget_cents") - 1
    /\ get_month_spend(get_current_month) > 0
    /\ obs.ret.value[1].allowed
    /\ obs.ret.value[2]

\* C8: check_budget() never raises ZeroDivisionError, and with
\* monthly_budget_cents = 0 it returns an (allowed, reason) decision for every
\* spend >= 0.
C8_NoDivisionError ==
    obs.call = "check_budget" =>
        /\ obs.ret.raised # "ZeroDivisionError"
        /\ ConfigNum("monthly_budget_cents") = 0 =>
              /\ obs.ret.raised = ""
              /\ obs.ret.value[1].allowed \in BOOLEAN
              /\ obs.ret.value[1].reason \in {CoolingDown, Msg("ok")}

\* check_budget() has returned with a limit of 0 and a spend above 0
C8_Witness ==
    /\ obs.call = "check_budget"
    /\ ConfigNum("monthly_budget_cents") = 0
    /\ get_month_spend(get_current_month) > 0
    /\ obs.ret.raised = ""

SessionLimit == ConfigNum("daily_roasts_per_session")

\* C9: after N record_usage() calls for a session with limit L and a table that
\* started empty, get_remaining_roasts() returns max(0, L - N), never a negative
\* number and L for N = 0, and check_rate_limit() denies whenever N >= L.
C9_RemainingRoasts ==
    /\ obs.call = "get_remaining_roasts" =>
          /\ obs.ret.raised = ""
          /\ obs.ret.value = Max(0, SessionLimit - obs.n[obs.args[1]])
          /\ obs.ret.value >= 0
          /\ obs.n[obs.args[1]] = 0 => obs.ret.value = SessionLimit
    /\ (obs.call = "check_rate_limit" /\ obs.n[obs.args[1]] >= SessionLimit) =>
          /\ obs.ret.raised = ""
          /\ ~obs.ret.value[1].allowed

\* more record_usage() calls than the limit, and get_remaining_roasts() returned 0
C9_Witness ==
    /\ obs.call = "get_remaining_roasts"
    /\ SessionLimit > 0
    /\ obs.n[obs.args[1]] > SessionLimit
    /\ obs.ret.value = 0

\* C10: when the session's count for today is >= daily_roasts_per_session,
\* check_rate_limit() returns deny with the session message carrying the limit,
\* whatever the ip and global counts and limits are, and looks at no other tier.
C10_SessionTierFirst ==
    (/\ obs.call = "check_rate_limit"
     /\ usage_of(daily_usage, today, SessionIdentity(obs.args[1])) >= SessionLimit) =>
        /\ obs.ret.raised = ""
        /\ obs.ret.value[1] =
              Decision(FALSE, SessionLimitMsg(SessionLimit, 24 - obs.args[3]))
        /\ obs.ret.value[2] = <<"session">>

\* the session tier denied although the ip ceiling was reached as well
C10_Witness ==
    /\ obs.call = "check_rate_limit"
    /\ SessionLimit > 0
    /\ usage_of(daily_usage, today, SessionIdentity(obs.args[1])) >= SessionLimit
    /\ IsNumeral(app_config["daily_roasts_per_ip"])
    /\ usage_of(daily_usage, today, IpIdentity(obs.args[2]))
          >= ConfigNum("daily_roasts_per_ip")
    /\ ~obs.ret.value[1].allowed

\* record_usage() calls made so far, over all sessions
UsageCalls == SumOver(obs.n, Sessions)

\* C11: a request whose session count is below the session limit is denied with
\* the network message exactly when today's count of its ip-tagged identity is
\* >= daily_roasts_per_ip; the ip-tagged rows count the record_usage() calls of
\* all sessions.
C11_IpTier ==
    /\ IpTotal = UsageCalls
    /\ (/\ obs.call = "check_rate_limit"
        /\ usage_of(daily_usage, today, SessionIdentity(obs.args[1])) < SessionLimit
        /\ IsNumeral(app_config["daily_roasts_per_ip"])) =>
           ((obs.ret.raised = "" /\ obs.ret.value[1] = Decision(FALSE, NetworkLimitMsg))
              <=> usage_of(daily_usage, today, IpIdentity(obs.args[2]))
                     >= ConfigNum("daily_roasts_per_ip"))

\* a session that has not roasted today is denied for what another session of
\* the same ip hash used
C11_Witness ==
    /\ obs.call = "check_rate_limit"
    /\ SessionLimit > 0
    /\ usage_of(daily_usage, today, SessionIdentity(obs.args[1])) = 0
    /\ obs.ret.raised = ""
    /\ obs.ret.value[1] = Decision(FALSE, NetworkLimitMsg)

\* C12: the global tier compares daily_roasts_global with the sum of count over
\* all of today's rows, which is twice the number of record_usage() calls; a
\* request that passes the session and ip tiers is denied with the capacity
\* message exactly when that sum is >= daily_roasts_global and allowed otherwise.
C12_GlobalTier ==
    LET total == SumCount(daily_usage, {k \in DOMAIN daily_usage : k[1] = today})
    IN  /\ total = 2 * UsageCalls
        /\ (/\ obs.call = "check_rate_limit"
            /\ usage_of(daily_usage, today, SessionIdentity(obs.args[1])) < SessionLimit
            /\ IsNumeral(app_config["daily_roasts_per_ip"])
            /\ usage_of(daily_usage, today, IpIdentity(obs.args[2]))
                  < ConfigNum("daily_roasts_per_ip")
            /\ IsNumeral(app_config["daily_roasts_global"])) =>
               /\ obs.ret.raised = ""
               /\ obs.ret.value[1] =
                     IF total >= ConfigNum("daily_roasts_global")
                     THEN Decision(FALSE, CapacityMsg)
                     ELSE Decision(TRUE, Msg("ok"))

\* the capacity denial comes although fewer roasts than daily_roasts_global
\* were recorded today
C12_Witness ==
    /\ obs.call = "check_rate_limit"
    /\ obs.ret.raised = ""
    /\ obs.ret.value[1] = Decision(FALSE, CapacityMsg)
    /\ UsageCalls > 0
    /\ UsageCalls < ConfigNum("daily_roasts_global")

-----------------------------------------------------------------------------
(* Claims about what record_usage() and prune_old_usage() write *)

CountOf(t, k) == IF k \in DOMAIN t THEN t[k] ELSE 0

\* C13: a record_usage() call adds 1 to exactly the two rows (today, session:<id>)
\* and (today, ip:<hash>), inserting them with count 1 when absent, and leaves
\* every other daily_usage row and every monthly_budget row as it was.
C13_RecordUsageFrame ==
    [][obs'.n # obs.n =>
          LET ks == <<today, SessionIdentity(obs'.args[1])>>
              ki == <<today, IpIdentity(obs'.args[2])>>
          IN  /\ DOMAIN daily_usage' = DOMAIN daily_usage \cup {ks, ki}
              /\ daily_usage'[ks] = CountOf(daily_usage, ks) + 1
              /\ daily_usage'[ki] = CountOf(daily_usage, ki) + 1
              /\ \A k \in DOMAIN daily_usage \ {ks, ki} : daily_usage'[k] = daily_usage[k]
              /\ UNCHANGED monthly_budget]_vars

\* record_usage() returned with rows of an earlier day, another ip row of today
\* and a monthly_budget row in the store
C13_Witness ==
    /\ obs.call = "record_usage"
    /\ monthly_budget # EmptyTable
    /\ \E k \in DOMAIN daily_usage : k[1] < today
    /\ \E k \in DOMAIN daily_usage :
          k[1] = today /\ k[2][1] = "ip" /\ k[2] # IpIdentity(obs.args[2])
    /\ daily_usage[<<today, SessionIdentity(obs.args[1])>>] >= 2

\* C19: prune_old_usage(d) deletes exactly the daily_usage rows whose date is
\* older than today - d; the rows with date >= today - d and the monthly_budget
\* rows stay as they were.
C19_PruneFrame ==
    [][(obs'.call = "prune_old_usage" /\ today' = today) =>
          LET cutoff == today - obs'.args[1]
          IN  /\ DOMAIN daily_usage' = {k \in DOMAIN daily_usage : k[1] >= cutoff}
              /\ \A k \in DOMAIN daily_usage' : daily_usage'[k] = daily_usage[k]
              /\ UNCHANGED monthly_budget]_vars

\* prune_old_usage() returned: a row of the cutoff day is still there and
\* recorded usage of older days is gone
C19_Witness ==
    /\ obs.call = "prune_old_usage"
    /\ monthly_budget # EmptyTable
    /\ \E k \in DOMAIN daily_usage : k[1] = today - obs.args[1] /\ k[1] < today
    /\ SumCount(daily_usage, DOMAIN daily_usage) < 2 * UsageCalls

-----------------------------------------------------------------------------
(* Claims about failures of the store *)

Last(q) == q[Len(q)]

\* the requests whose record_usage call has returned
UsageRecorded == {r \in Requests : HasEnded(r, "record_usage", "return")}

\* C14: a record_usage() or record_cost() that fails writes nothing: the step in
\* which the call raises leaves monthly_budget and daily_usage as they were, and
\* in every state the session-tagged and the ip-tagged counts both equal the
\* number of record_usage() calls that returned, so no call has incremented only
\* one of its two rows.
C14_RollbackEntire ==
    /\ [](/\ SessionTotal = Cardinality(UsageRecorded)
          /\ IpTotal = Cardinality(UsageRecorded)
          /\ get_month_roast_count(get_current_month) = Cardinality(CostRecorded))
    /\ [][\A r \in Requests :
             (/\ Len(trace'[r]) > Len(trace[r])
              /\ Last(trace'[r]) \in {<<"record_usage", "raise">>, <<"record_cost", "raise">>}) =>
                 UNCHANGED <<monthly_budget, daily_usage>>]_vars

\* one request's record_usage() raised after another's had returned
C14_Witness ==
    \E r, q \in Requests :
        /\ pc[r] = "error"
        /\ Last(trace[r]) = <<"record_usage", "raise">>
        /\ q \in UsageRecorded
        /\ writer = 0

C16_CheckFailureNoPass ==
    \A r \in Requests : \A i \in DOMAIN trace[r] :
        (/\ trace[r][i][1] \in {"check_budget", "check_rate_limit"}
         /\ trace[r][i][2] = "raise") =>
            /\ i = Len(trace[r])
            /\ pc[r] = "error"
            /\ ~result[r].ok
            /\ \A j \in DOMAIN trace[r] : trace[r][j][1] # "roast_code"

\* one request ended in check_budget() raising, another in check_rate_limit() raising
C16_Witness ==
    \E r, q \in Requests :
        /\ pc[r] = "error" /\ Last(trace[r]) = <<"check_budget", "raise">>
        /\ pc[q] = "error" /\ Last(trace[q]) = <<"check_rate_limit", "raise">>

-----------------------------------------------------------------------------
(* Claims about termination *)

\* C17, as stated: a request that has left the gate was rejected by a check,
\* failed in the model call, or completed with recording.
C17_ThreeOutcomes ==
    \A r \in Requests :
        (pc[r] # "idle" /\ ~InFlight(r)) => pc[r] \in {"rejected", "failed", "done"}

\* C17, amended: a request that enters the gate always reaches a terminal outcome
\* and stays in it: rejected by a check, failed model call, completed with
\* recording, or the error response of a store call or config read that raised.
C17_ReachesTerminal ==
    /\ \A r \in Requests : (pc[r] = "kill_switch") ~> (pc[r] \in Terminal)
    /\ [][\A r \in Requests : pc[r] \in Terminal => pc'[r] = pc[r]]_vars

\* one request completed with recording, another ended with the error response
\* after its model call
C17_Witness ==
    \E r, q \in Requests :
        /\ pc[r] = "done"
        /\ pc[q] = "error"
        /\ result[q].ok

-----------------------------------------------------------------------------
(* Claims about the model client *)

\* the errors after which another attempt may help
TransientClass == {"APIConnectionError", "InternalServerError"}

\* the errors that say the request or the response is not valid
ValidationClass == {"BadRequestError", "APIResponseValidationError"}

\* C18: the client makes at most stop_after_attempt attempts per request and
\* makes another attempt only after a transient or connection error; a
\* validation error ends the call with the attempt that raised it; the gate
\* calls roast_code() once per request.
C18_RetryPolicy ==
    \A r \in Requests :
        LET calls == Attempts(r)
        IN  /\ Len(calls) <= stop_after_attempt
            /\ \A i \in 1..(Len(calls) - 1) : calls[i][2] \in TransientClass
            /\ \A i \in DOMAIN calls :
                  calls[i][2] \in ValidationClass => (i = Len(calls) /\ pc[r] # "roast_code")
            /\ Len(SelectSeq(trace[r], LAMBDA e : e[1] = "roast_code")) <= 1

-----------------------------------------------------------------------------
(* Claims about the start of the process *)

\* C20: when the prune_old_usage() call of create_app() has raised, create_app()
\* still returns the application, which serves requests, and the failure has
\* been logged.
C20_PruneFailureLogged ==
    /\ obs.call = "create_app" => Serving
    /\ (obs.call = "create_app" /\ obs.args[1] # "") => obs.ret.value # <<>>
    /\ \A r \in Requests : pc[r] # "idle" => Serving

-----------------------------------------------------------------------------
(* Claims about the configuration *)

\* C21: every gate check decides with the config values the store holds when the
\* check runs, so a set_config() takes effect for every check after it: the kill
\* switch passes exactly when enable_roasting is "true" now, the limits in the
\* rejection messages and the budget and session comparisons are the present
\* values.
C21_NoCaching ==
    [][\A r \in Requests :
          Len(trace'[r]) > Len(trace[r]) =>
              LET e == Last(trace'[r])
                  spend == get_month_spend(get_current_month)
              IN  /\ e[1] = "kill_switch" =>
                        /\ e[2] = "pass" => app_config["enable_roasting"] = "true"
                        /\ e[2] = "fail" => app_config["enable_roasting"] # "true"
                  /\ e[1] = "validate_input" =>
                        /\ e[2] = "pass" => ConfigNum("max_input_chars") >= 1
                        /\ (e[2] = "fail" /\ flash'[r].args # <<>>) =>
                              flash'[r].args[2] \in {ConfigNum("max_input_chars"),
                                                     ConfigNum("max_input_lines")}
                  /\ (e[1] = "check_budget" /\ e[2] # "raise") =>
                        /\ IsNumeral(app_config["monthly_budget_cents"])
                        /\ e[2] = "pass" <=>
                              /\ spend < ConfigNum("monthly_budget_cents")
                              /\ spend + ConfigNum("cost_per_roast_cents")
                                    <= ConfigNum("monthly_budget_cents")
                  /\ e[1] = "check_rate_limit" =>
                        /\ e[2] = "pass" =>
                              usage_of(daily_usage, today,
                                       SessionIdentity(req'[r].session_id)) < SessionLimit
                        /\ (e[2] = "fail" /\ flash'[r].args # <<>>) =>
                              flash'[r].args[1] = SessionLimit]_vars

\* a request completed with roasting enabled, the admin switched it off, and the
\* next request was turned away by the kill switch
C21_Witness ==
    \E r, q \in Requests :
        /\ pc[q] = "done"
        /\ cfg_writes > 0
        /\ app_config["enable_roasting"] = "false"
        /\ pc[r] = "rejected"
        /\ flash[r] = OfflineMsg

\* the defaults the claim lists, and those of validate_input
DefaultOf ==
    [enable_roasting |-> "true", monthly_budget_cents |-> "2000",
     cost_per_roast_cents |-> "1", budget_warning_threshold |-> "80",
     daily_roasts_per_session |-> "10", daily_roasts_per_ip |-> "30",
     daily_roasts_global |-> "500", max_input_chars |-> "15000",
     max_input_lines |-> "500"]

\* the stored value of a key, or the listed default when the row is absent
Effective(key) == IF key \in DOMAIN app_config THEN app_config[key] ELSE DefaultOf[key]

EffNum(key) == ParseNum(Effective(key))

\* C22: with any set of config keys absent from the store every gate check
\* returns without raising, and its decision is the one the listed defaults give
\* for the absent keys: enable_roasting "true", monthly_budget_cents 2000,
\* cost_per_roast_cents 1, budget_warning_threshold 80, session 10, ip 30,
\* global 500.
C22_MissingKeyDefaults ==
    LET spend == get_month_spend(get_current_month)
        limit == EffNum("monthly_budget_cents")
    IN  /\ obs.call # "" => obs.ret.raised = ""
        /\ obs.call = "enable_roasting" =>
              obs.ret.value = (Effective("enable_roasting") = "true")
        /\ obs.call = "check_budget" =>
              /\ obs.ret.value[1].allowed =
                    ~(spend >= limit \/ spend + EffNum("cost_per_roast_cents") > limit)
              /\ obs.ret.value[1].allowed =>
                    obs.ret.value[2] =
                       (limit > 0 /\ spend * 100 >= EffNum("budget_warning_threshold") * limit)
        /\ obs.call = "check_rate_limit" =>
              obs.ret.value[1] =
                 IF usage_of(daily_usage, today, SessionIdentity(obs.args[1]))
                       >= EffNum("daily_roasts_per_session")
                 THEN Decision(FALSE, SessionLimitMsg(EffNum("daily_roasts_per_session"),
                                                      24 - obs.args[3]))
                 ELSE IF usage_of(daily_usage, today, IpIdentity(obs.args[2]))
                            >= EffNum("daily_roasts_per_ip")
                 THEN Decision(FALSE, NetworkLimitMsg)
                 ELSE IF SumCount(daily_usage, {k \in DOMAIN daily_usage : k[1] = today})
                            >= EffNum("daily_roasts_global")
                 THEN Decision(FALSE, CapacityMsg)
                 ELSE Decision(TRUE, Msg("ok"))
        /\ obs.call = "get_remaining_roasts" =>
              obs.ret.value =
                 Max(0, EffNum("daily_roasts_per_session")
                           - usage_of(daily_usage, today, SessionIdentity(obs.args[1])))
        /\ obs.call = "validate_input" =>
              obs.ret.value[1] =
                 (/\ ~obs.args[1].blank
                  /\ obs.args[1].chars <= EffNum("max_input_chars")
                  /\ obs.args[1].lines <= EffNum("max_input_lines"))

\* with the budget keys absent, a spend of 1999 is allowed against the default
\* limit of 2000 and the warning is logged
C22_Witness ==
    /\ obs.call = "check_budget"
    /\ DOMAIN app_config \cap {"monthly_budget_cents", "cost_per_roast_cents",
                                "budget_warning_threshold"} = {}
    /\ get_month_spend(get_current_month) = 1999
    /\ obs.ret.raised = ""
    /\ obs.ret.value[1].allowed
    /\ obs.ret.value[2]

-----------------------------------------------------------------------------
(* Claims about the ip identity *)

\* the request r as the app received it
Environ(r) == trace[r][1][2]

\* the requests whose identity record_usage() has read and not yet let go
Identified == {r \in Requests : pc[r] \in {"record_usage", "usage_ip", "usage_commit"}}

\* C23: with TRUSTED_PROXY_COUNT 0 the ip hash of a request is the hash of its
\* peer address whatever X-Forwarded-For it carries: requests with the same peer
\* address get the same hash, and the ip-tagged row of that hash counts all of
\* them.
C23_PeerOnly ==
    TRUSTED_PROXY_COUNT = 0 =>
        /\ \A r \in Identified : req[r].ip_hash = sha256_16(Environ(r).remote_addr)
        /\ \A r, q \in Identified :
              Environ(r).remote_addr = Environ(q).remote_addr =>
                  req[r].ip_hash = req[q].ip_hash
        /\ \A a \in Clients \cup {ProxyAddr(i) : i \in 1..MaxProxies} :
              CountOf(daily_usage, <<today, IpIdentity(sha256_16(a))>>)
                 = Cardinality({r \in Requests :
                                  pc[r] = "done" /\ Environ(r).remote_addr = a})

\* two requests from one peer address, one with a forged X-Forwarded-For and one
\* without the header, were counted in the same ip-tagged row
C23_Witness ==
    /\ TRUSTED_PROXY_COUNT = 0
    /\ \E r, q \in Requests :
          /\ pc[r] = "done" /\ pc[q] = "done"
          /\ Environ(r).remote_addr = Environ(q).remote_addr
          /\ ~Environ(r).has_xff
          /\ Environ(q).has_xff /\ Environ(q).xff[1] # Environ(q).remote_addr
          /\ CountOf(daily_usage,
                     <<today, IpIdentity(sha256_16(Environ(r).remote_addr))>>) = 2

\* C24: with TRUSTED_PROXY_COUNT N > 0 the hashed address is the entry of the
\* forwarded-for chain at index max(0, length - N); behind at least N proxies
\* that entry is one a proxy appended, behind exactly N it is the client's
\* address; with N = 0 the hashed address is the peer address.
C24_ForwardedIndex ==
    \A r \in Identified :
        LET environ == Environ(r)
            chain == IF environ.has_xff THEN environ.xff ELSE <<environ.remote_addr>>
            n == TRUSTED_PROXY_COUNT
            index == IF Len(chain) - n > 0 THEN Len(chain) - n ELSE 0
        IN  IF n > 0
            THEN /\ req[r].ip_hash = sha256_16(chain[index + 1])
                 /\ obs.args[2] >= n => index + 1 > environ.sent
                 /\ obs.args[2] = n => req[r].ip_hash = sha256_16(environ.client)
            ELSE req[r].ip_hash = sha256_16(environ.remote_addr)

\* behind two trusted proxies a client that forged a header entry is identified
\* by its own address, which is neither the first nor the last entry of the chain
C24_Witness ==
    \E r \in Identified :
        /\ TRUSTED_PROXY_COUNT = 2
        /\ obs.args[2] = 2
        /\ Environ(r).sent > 0
        /\ req[r].ip_hash = sha256_16(Environ(r).client)
        /\ Environ(r).xff[1] # Environ(r).client
        /\ Environ(r).xff[Len(Environ(r).xff)] # Environ(r).client

-----------------------------------------------------------------------------
(* Claims about the ledger over several months *)

\* C25: monthly_budget has one row for each month in which record_cost() has
\* been called and none for any other month; a row appears in the record_cost()
\* step of its month, no step deletes a row, and no step lowers a row's
\* spent_cents.
C25_LedgerLifecycle ==
    /\ [](/\ DOMAIN monthly_budget = DOMAIN obs.m
          /\ \A m \in DOMAIN monthly_budget : m <= get_current_month
          /\ Cardinality(DOMAIN monthly_budget) <= get_current_month + 1)
    /\ [][/\ \A m \in DOMAIN monthly_budget :
                /\ m \in DOMAIN monthly_budget'
                /\ monthly_budget'[m].spent_cents >= monthly_budget[m].spent_cents
          /\ \A m \in DOMAIN monthly_budget' \ DOMAIN monthly_budget :
                /\ m = get_current_month
                /\ obs'.call = "record_cost"
                /\ Tally(obs.m, m) = 0]_vars

\* a second month has its row, next to the row of the month before with more
\* than one roast in it
C25_Witness ==
    /\ get_current_month > 0
    /\ get_current_month \in DOMAIN monthly_budget
    /\ \E m \in DOMAIN monthly_budget :
          m < get_current_month /\ monthly_budget[m].roast_count > 1

\* C26: record_cost(c) inserts the current month's row with spent_cents = c and
\* roast_count = 1 when the month has no row and otherwise adds c to spent_cents
\* and 1 to roast_count; the rows of other months stay as they were, and a
\* month's roast_count is the number of record_cost() calls made in it.
C26_RecordCostUpsert ==
    /\ [](\A m \in DOMAIN monthly_budget : monthly_budget[m].roast_count = Tally(obs.m, m))
    /\ [][obs'.m # obs.m =>
             LET month == get_current_month
                 c == obs'.args[1]
             IN  /\ DOMAIN monthly_budget' = DOMAIN monthly_budget \cup {month}
                 /\ monthly_budget'[month] =
                       IF month \in DOMAIN monthly_budget
                       THEN [spent_cents |-> monthly_budget[month].spent_cents + c,
                             roast_count |-> monthly_budget[month].roast_count + 1]
                       ELSE [spent_cents |-> c, roast_count |-> 1]
                 /\ \A m \in DOMAIN monthly_budget \ {month} :
                       monthly_budget'[m] = monthly_budget[m]]_vars

\* the third record_cost() of a month has returned, with the row of an earlier
\* month in the table
C26_Witness ==
    /\ obs.call = "record_cost"
    /\ get_current_month \in DOMAIN monthly_budget
    /\ monthly_budget[get_current_month].roast_count = 3
    /\ monthly_budget[get_current_month].spent_cents > 3
    /\ \E m \in DOMAIN monthly_budget : m < get_current_month

\* the calls that only read the counters
ReadCalls == {"check_budget", "check_rate_limit", "get_month_spend",
              "get_month_roast_count", "get_remaining_roasts"}

\* C27: check_budget(), check_rate_limit(), get_month_spend(),
\* get_month_roast_count() and get_remaining_roasts() leave monthly_budget and
\* daily_usage as they were, and the two month reads return the row's value, or
\* 0 for a month without a row.
C27_ReadsReadOnly ==
    /\ [](/\ obs.call = "get_month_spend" =>
                obs.ret = Returned(IF obs.args[1] \in DOMAIN monthly_budget
                                   THEN monthly_budget[obs.args[1]].spent_cents ELSE 0)
          /\ obs.call = "get_month_roast_count" =>
                obs.ret = Returned(IF obs.args[1] \in DOMAIN monthly_budget
                                   THEN monthly_budget[obs.args[1]].roast_count ELSE 0))
    /\ [][obs'.call \in ReadCalls => UNCHANGED <<monthly_budget, daily_usage>>]_vars

\* get_month_spend() returned 0 for a month without a row, with another month's
\* row and usage rows in the store
C27_Witness ==
    /\ obs.call = "get_month_spend"
    /\ obs.args[1] \notin DOMAIN monthly_budget
    /\ obs.ret.value = 0
    /\ monthly_budget # EmptyTable
    /\ daily_usage # EmptyTable

-----------------------------------------------------------------------------
(* Claims about the usage counters over several days *)

\* C28: no step lowers the count of a daily_usage row; a row goes away only in a
\* prune_old_usage() step, and then its date is older than today.
C28_UsageMonotonic ==
    [][\A k \in DOMAIN daily_usage :
          IF k \in DOMAIN daily_usage'
          THEN daily_usage'[k] >= daily_usage[k]
          ELSE /\ obs'.call = "prune_old_usage"
               /\ k[1] < today
               /\ k[1] < today - obs'.args[1]]_vars

\* prune_old_usage() has deleted rows of an earlier day and left a row of today
\* that was counted up more than once
C28_Witness ==
    /\ obs.call = "prune_old_usage"
    /\ \E k \in DOMAIN daily_usage : k[1] = today /\ daily_usage[k] >= 2
    /\ \A k \in DOMAIN daily_usage : k[1] = today
    /\ SumCount(daily_usage, DOMAIN daily_usage) < 2 * UsageCalls

-----------------------------------------------------------------------------
(* Claims about how far concurrent requests can pass a limit *)

\* C29: with the config fixed and at most k requests served at the same time, no
\* session's count for today exceeds daily_roasts_per_session + (k - 1); served
\* one at a time, no session's count exceeds the limit.
C29_SessionQuotaBound ==
    \A s \in Sessions :
        LET count == usage_of(daily_usage, today, SessionIdentity(s))
        IN  /\ count <= SessionLimit + (Concurrency - 1)
            /\ Concurrency = 1 => count <= SessionLimit

\* two requests of one session passed the check together and both were counted:
\* the count is one above the limit, and a later request of the session was
\* denied
C29_Witness ==
    /\ Concurrency = 2
    /\ \E s \in Sessions, r \in Requests :
          /\ usage_of(daily_usage, today, SessionIdentity(s)) = SessionLimit + 1
          /\ pc[r] = "rejected"
          /\ flash[r].text = SessionLimitMsg(0, 0).text

\* C30: with the config fixed, costs in whole cents, every actual cost at most
\* cost_per_roast_cents and at most k requests served at the same time, the
\* month's spent_cents never exceeds monthly_budget_cents + (k - 1) *
\* cost_per_roast_cents; served one at a time it never exceeds the limit.
C30_SpendBound ==
    LET spend == get_month_spend(get_current_month)
        limit == ConfigNum("monthly_budget_cents")
        estimate == ConfigNum("cost_per_roast_cents")
    IN  (\A row \in roast_log : row.cost_cents <= estimate) =>
            /\ spend <= limit + (Concurrency - 1) * estimate
            /\ Concurrency = 1 => spend <= limit

\* two requests passed the budget check together and both were charged the
\* estimate: the spend is one estimate above the limit
C30_Witness ==
    /\ Concurrency = 2
    /\ \A row \in roast_log : row.cost_cents <= ConfigNum("cost_per_roast_cents")
    /\ get_month_spend(get_current_month)
          = ConfigNum("monthly_budget_cents") + ConfigNum("cost_per_roast_cents")

-----------------------------------------------------------------------------
(* Claims about the two counters of a roast *)

\* the sum of count over the rows of a date with this tag
TagTotal(t, date, tag) ==
    SumCount(t, {k \in DOMAIN t : k[1] = date /\ k[2][1] = tag})

\* C31: in every state and for every date, the counts of the session-tagged
\* daily_usage rows add up to the same number as the counts of the ip-tagged
\* rows, however record_usage() calls, prune_old_usage() calls and failed
\* transactions interleave.
C31_TagSumsEqual ==
    \A d \in 0..MaxDay :
        TagTotal(daily_usage, d, "session") = TagTotal(daily_usage, d, "ip")

\* a record_usage() was rolled back, another was committed, the clock has moved
\* on, and prune_old_usage() has deleted the rows of the first day and left
\* those of a later one
C31_Witness ==
    /\ writer = 0
    /\ obs.call = "prune_old_usage" /\ obs.ret.raised = ""
    /\ \E r, q \in Requests :
          /\ pc[r] = "error" /\ Last(trace[r]) = <<"record_usage", "raise">>
          /\ pc[q] = "done"
    /\ daily_usage # EmptyTable
    /\ \A k \in DOMAIN daily_usage : 0 < k[1] /\ k[1] < today

-----------------------------------------------------------------------------
(* Claims about the ledger and the result log *)

\* the roast_log records persisted in a month, and those of a session on a day
LoggedIn(month) == {row \in roast_log : row.created_at \div MonthLen = month}
LoggedOn(date, session_id) ==
    {row \in roast_log : row.created_at = date /\ row.session_id = session_id}

\* C32: whenever no request is in progress, the current month's spent_cents is
\* the sum of cost_cents over the roast_log records persisted in that month, and
\* for every session the number of today's roast_log records is the session's
\* daily_usage count for today, also after a write to the counters has failed.
C32_NoDrift ==
    (\A r \in Requests : ~InFlight(r)) =>
        /\ get_month_spend(get_current_month)
              = SumOver([row \in roast_log |-> row.cost_cents], LoggedIn(get_current_month))
        /\ \A s \in Sessions :
              Cardinality(LoggedOn(today, s))
                 = usage_of(daily_usage, today, SessionIdentity(s))

-----------------------------------------------------------------------------
(* Claims about the counters when the date advances *)

\* the roasts the caller recorded on a date, for one identity and in all
RecordedOn(date, identity) == Tally(obs.d, <<date, identity>>)
RecordedOnDate(date) == SumCount(obs.d, {k \in DOMAIN obs.d : k[1] = date})

\* C33: the usage counters are per day: check_rate_limit() allows exactly when
\* the roasts recorded today, and only those, are below the session limit, the
\* ip ceiling and the global cap, and get_remaining_roasts() returns the whole
\* daily_roasts_per_session for a session with nothing recorded today, whatever
\* was recorded on earlier dates.
C33_PerCalendarDay ==
    [][(UNCHANGED <<today, daily_usage>> /\ obs'.call = "check_rate_limit") =>
          (/\ obs'.ret.raised = ""
           /\ obs'.ret.value[1].allowed
                 = (/\ RecordedOn(today, SessionIdentity(obs'.args[1])) < SessionLimit
                    /\ RecordedOn(today, IpIdentity(obs'.args[2]))
                          < ConfigNum("daily_roasts_per_ip")
                    /\ RecordedOnDate(today) < ConfigNum("daily_roasts_global")))]_vars
    /\ [][(/\ UNCHANGED <<today, daily_usage>>
           /\ obs'.call = "get_remaining_roasts"
           /\ RecordedOn(today, SessionIdentity(obs'.args[1])) = 0) =>
              (obs'.ret.raised = "" /\ obs'.ret.value = SessionLimit)]_vars

\* a session that used up a limit of 2 yesterday, its rows still in the table,
\* is allowed today
C33_Witness ==
    /\ obs.call = "check_rate_limit"
    /\ today > 0
    /\ SessionLimit = 2
    /\ RecordedOn(today - 1, SessionIdentity(obs.args[1])) >= SessionLimit
    /\ CountOf(daily_usage, <<today - 1, SessionIdentity(obs.args[1])>>) >= SessionLimit
    /\ RecordedOnDate(today) > 0
    /\ obs.ret.value[1].allowed

-----------------------------------------------------------------------------
(* Claims about init_db() and set_config() *)

\* C34: an init_db() run on a store in use leaves every app_config row it finds
\* with its value and leaves monthly_budget and daily_usage as they are; the rows
\* it adds are those of the default keys that were absent, with the defaults.
C34_InitDbIdempotent ==
    [][(obs'.call = "init_db" /\ UNCHANGED cfg_writes) =>
          /\ \A k \in DOMAIN app_config :
                k \in DOMAIN app_config' /\ app_config'[k] = app_config[k]
          /\ DOMAIN app_config' = DOMAIN app_config \cup ConfigKeys
          /\ \A k \in DOMAIN app_config' \ DOMAIN app_config :
                app_config'[k] = DEFAULT_CONFIG[k]
          /\ UNCHANGED <<monthly_budget, daily_usage, roast_log>>]_vars

\* init_db() has run again after this process recorded a cost, on a store that
\* was left without the ip ceiling and has an edited kill switch, a month's
\* spend and usage rows
C34_Witness ==
    /\ obs.call = "init_db"
    /\ cfg_writes > 0
    /\ app_config["enable_roasting"] = "false"
    /\ app_config["daily_roasts_per_ip"] = DEFAULT_CONFIG["daily_roasts_per_ip"]
    /\ app_config["daily_roasts_per_session"] # DEFAULT_CONFIG["daily_roasts_per_session"]
    /\ get_month_spend(get_current_month) > 1
    /\ daily_usage # EmptyTable

\* C35: set_config() creates and removes no key: a call for a key without a row
\* changes nothing in the store, after init_db() the keys of app_config are
\* the seeded keys in every state, and get_config() for an unseeded key returns
\* the default its caller passed.
C35_SetConfigNoNewKeys ==
    /\ [](/\ Initialised => DOMAIN app_config = ConfigKeys
          /\ (obs.call = "get_config" /\ obs.args[1] \notin ConfigKeys) =>
                obs.ret = Returned(obs.args[2]))
    /\ [][cfg_writes' # cfg_writes =>
             /\ DOMAIN app_config' = DOMAIN app_config
             /\ obs'.args[1] \notin DOMAIN app_config => UNCHANGED store]_vars

\* get_config() returned the caller's default for an unseeded key that the admin
\* form had posted before
C35_Witness ==
    /\ obs.call = "get_config"
    /\ obs.args[1] \in UnseededKeys
    /\ obs.args[1] \in obs.posted
    /\ cfg_writes > 0
    /\ obs.ret.value = obs.args[2]

====
